---------------------------- MODULE Spec2Model ----------------------------
(***************************************************************************)
(* Document-to-3D pipeline of the 3D-Maps backend:                         *)
(*   - _normalize_extraction_data  (app/tasks/processing.py)               *)
(*   - extract_pdf / extract_from_file (app/processing/extractors)         *)
(*   - process_document            (app/tasks/processing.py)               *)
(*                                                                         *)
(* Numbers.  Confidences are held in tenths (0.3 is 3, 0.85 rounds to a    *)
(* tenth), lengths in metres.  A JSON value is a record [t, n, d]: t is    *)
(* its Python type as far as the code can tell it apart, n/d the number.   *)
(***************************************************************************)
EXTENDS Integers, Sequences, FiniteSets, TLC

VARIABLES
    n_pc,        \* normalizer call: "input" (arguments being built) | "done"
    n_interp,    \* interpretation_result argument
    n_coords,    \* extraction_result.coordinates
    n_out        \* what the call produced: [raised, value]

n_vars == <<n_pc, n_interp, n_coords, n_out>>

VARIABLES
    p_pc,         \* extract_pdf: "open" | "text" | "render" | "classify" | "sort" | "log" | "done"
    p_count,      \* len(doc), the pages of the source file
    p_page,       \* page_num of the loop
    p_text,       \* pages whose text is in result.text_content
    p_images,     \* result.images: the page each image was rendered from
    p_cls,        \* result.page_classifications
    p_meta,       \* result.metadata: page_count and page_types
    p_confidence, \* result.confidence, in hundredths
    p_errors      \* result.errors

p_vars == <<p_pc, p_count, p_page, p_text, p_images, p_cls, p_meta, p_confidence,
            p_errors>>

----------------------------------------------------------------------------
VARIABLES
    d_pc,         \* process_document: position of the running execution
    d_type,       \* document.file_type
    d_status,     \* Document.processing_status as committed
    d_data,       \* Document.extracted_data as committed: "none" | "result" | "error"
    d_retries,    \* self.request.retries of the running execution
    d_tmp,        \* this execution's temporary file: "none" | "exists" | "deleted"
    d_tmp_path,   \* TRUE once tmp_path is assigned
    d_file,       \* what extract_from_file reads from the stored file
    d_ext,        \* extraction_result
    d_idx,        \* img_idx of the interpretation loop
    d_all,        \* all_buildings
    d_calls,      \* interpreter calls made by this execution, in order
    d_interp,     \* interpretation_result
    d_norm,       \* normalized_buildings
    d_k,          \* buildings of normalized_buildings already created
    d_pending,    \* Building rows flushed in the session, not committed
    d_broken,     \* the session's transaction failed (flush or commit raised)
    d_buildings,  \* Building rows committed
    d_jobs,       \* building ids of the generate_3d_model jobs dispatched
    d_next_id,    \* next Building id
    d_outcome     \* how the execution ends: "none" | "return" | "retry" | "fail"

d_vars == <<d_pc, d_type, d_file, d_status, d_data, d_retries, d_tmp, d_tmp_path, d_ext, d_idx,
            d_all, d_calls, d_interp, d_norm, d_k, d_pending, d_broken, d_buildings,
            d_jobs, d_next_id, d_outcome>>

VARIABLES
    m_pc,        \* poll_until_done: "idle" | "test" | "fetch" | "sleep" | "done"
    m_timeout,   \* timeout argument, seconds
    m_interval,  \* poll_interval argument, seconds
    m_elapsed,   \* elapsed
    m_events,    \* what the call did so far: status fetches and sleeps, in order
    m_outcome    \* "none" | "returned" | "RuntimeError" | "TimeoutError" | "FetchError"

m_vars == <<m_pc, m_timeout, m_interval, m_elapsed, m_events, m_outcome>>

VARIABLES
    g_status,     \* Building.generation_status as committed
    g_model_url,  \* Building.model_url as committed: "none" or who wrote it
    g_lod_urls,   \* Building.lod_urls as committed: the set of its LOD levels
    g_written,    \* the building has had model_url / lod_urls written
    g_requests,   \* generate requests served so far
    g_queue,      \* generate_3d_model_ai jobs waiting in the task queue
    a_pc,         \* generate_3d_model_ai: position of the running execution
    a_job,        \* its arguments and self.request.retries
    a_glb,        \* the Meshy result it holds carries a model URL
    a_refine,     \* how its refine step ended: "none" | "refined" | "failed"
    a_outcome,    \* how it ends: "none" | "return" | "retry" | "fail"
    q_pc,         \* generate_3d_model: position of the job
    q_lods,       \* lod_glbs: the LOD levels exported
    q_uploaded,   \* the levels uploaded so far (0 is the full model)
    q_outcome     \* how it ends: "none" | "return" | "raise"

g_vars == <<g_status, g_model_url, g_lod_urls, g_written, g_requests, g_queue,
            a_pc, a_job, a_glb, a_refine, a_outcome, q_pc, q_lods, q_uploaded, q_outcome>>

VARIABLES
    l_pc,        \* LODGenerator.generate_lods: "idle" | "levels" | "done"
    l_faces,     \* len(mesh.faces) of the input mesh
    l_level,     \* the level the loop is at
    l_lods       \* lods: the face count of each level present

l_vars == <<l_pc, l_faces, l_level, l_lods>>

VARIABLES
    b_pc,           \* _generate_balconies: "idle" | "edge" | "floors" | "done"
    b_footprint,    \* footprint[:, :2]
    b_floors,       \* floors
    b_floor_height, \* floor_height
    b_best,         \* best_idx and the squared best_len
    b_floor_idx,    \* floor_idx of the loop
    b_out           \* balconies

b_vars == <<b_pc, b_footprint, b_floors, b_floor_height, b_best, b_floor_idx, b_out>>

VARIABLES
    r_pc,         \* _gabled_roof: "idle" | "bbox" | "mesh" | "done"
    r_footprint,  \* footprint[:, :2]
    r_base,       \* base_height
    r_min,        \* min_pt
    r_max,        \* max_pt
    r_out         \* the mesh returned (ok FALSE: None)

r_vars == <<r_pc, r_footprint, r_base, r_min, r_max, r_out>>

VARIABLES
    f_pc,         \* generate_building: "idle" | "body" | "windows" | "door" | "cornice" | "done"
    f_footprint,  \* footprint = np.array(building_data["footprint"])
    f_floors,     \* floors
    f_roof_type,  \* roof_type
    f_features,   \* features: which of "windows", "balconies" are requested
    f_body,       \* the polygon _extrude_footprint extruded
    f_i,          \* edge index i of the running edge loop
    f_windows,    \* windows of _generate_windows, in order
    f_cornice,    \* edges that got a cornice box
    f_scene       \* geometry names added to the scene, in order

f_vars == <<f_pc, f_footprint, f_floors, f_roof_type, f_features, f_body, f_i, f_windows,
            f_cornice, f_scene>>

VARIABLES
    u_pc,       \* _upload_to_storage, per job: "idle" | "head" | "create" | "put" | "done"
    u_todo,     \* per job: the uploads it still has to make (this one included)
    u_bucket,   \* the bucket exists in the storage service
    u_objects,  \* objects stored, as <<job, number>>
    u_urls,     \* per job: the objects whose URL was returned to it
    u_raised    \* per job: an upload raised

u_vars == <<u_pc, u_todo, u_bucket, u_objects, u_urls, u_raised>>

(* Each specification runs one component; the others stay idle. *)
vars == <<n_vars, p_vars, d_vars, m_vars, g_vars, l_vars, b_vars, r_vars, f_vars, u_vars>>

NormOthers == <<p_vars, d_vars, m_vars, g_vars, l_vars, b_vars, r_vars, f_vars, u_vars>>
PdfOthers == <<n_vars, d_vars, m_vars, g_vars, l_vars, b_vars, r_vars, f_vars, u_vars>>
DocOthers == <<n_vars, p_vars, m_vars, g_vars, l_vars, b_vars, r_vars, f_vars, u_vars>>
PollOthers == <<n_vars, p_vars, d_vars, g_vars, l_vars, b_vars, r_vars, f_vars, u_vars>>
GenOthers == <<n_vars, p_vars, d_vars, m_vars, l_vars, b_vars, r_vars, f_vars, u_vars>>
LodOthers == <<n_vars, p_vars, d_vars, m_vars, g_vars, b_vars, r_vars, f_vars, u_vars>>
BalconyOthers == <<n_vars, p_vars, d_vars, m_vars, g_vars, l_vars, r_vars, f_vars, u_vars>>
RoofOthers == <<n_vars, p_vars, d_vars, m_vars, g_vars, l_vars, b_vars, f_vars, u_vars>>
BuildingOthers == <<n_vars, p_vars, d_vars, m_vars, g_vars, l_vars, b_vars, r_vars, u_vars>>
UploadOthers == <<n_vars, p_vars, d_vars, m_vars, g_vars, l_vars, b_vars, r_vars, f_vars>>

----------------------------------------------------------------------------
(* Bounds of the model *)
MaxEntries == 2      \* longest AI buildings list
MaxPolys == 2        \* most extracted coordinate polygons
MaxPages == 3        \* most pages of a PDF
MaxDocPages == 2     \* most pages of a processed PDF
MaxTimeout == 3      \* largest timeout of a poll_until_done call
MaxInterval == 2     \* largest poll_interval of a poll_until_done call
MaxRequests == 2     \* most generate requests for the building
MaxFaces == 14       \* most faces of a mesh given to generate_lods
MaxFloors == 5       \* largest floor count given to _generate_balconies
MaxUploads == 2      \* most objects one job uploads
MaxExtent == 3       \* largest side of a footprint given to the geometry generator

----------------------------------------------------------------------------
(* Python / JSON values *)
Absent == [t |-> "absent", n |-> 0, d |-> 1]    \* key not in the mapping
None == [t |-> "none", n |-> 0, d |-> 1]        \* null
Str == [t |-> "str", n |-> 0, d |-> 1]          \* a non-empty, non-numeric string
Num(k) == [t |-> "num", n |-> k, d |-> 1]

AbsentStr == "<absent>"

Abs(x) == IF x < 0 THEN -x ELSE x

RECURSIVE Gcd(_, _)
Gcd(a, b) == IF b = 0 THEN a ELSE Gcd(b, a % b)

\* a / b on numbers, b # 0, as a reduced fraction with positive denominator
Rat(a, b) ==
    LET g == Gcd(Abs(a), Abs(b))
        s == IF b < 0 THEN -1 ELSE 1
    IN [t |-> "num", n |-> (s * a) \div g, d |-> Abs(b) \div g]

\* int(x): truncation toward zero of the fraction a/b, b > 0
IntTrunc(a, b) == IF a >= 0 THEN a \div b ELSE -((-a) \div b)

Max(a, b) == IF a >= b THEN a ELSE b

\* bool(v)
Truthy(v) == v.t = "str" \/ (v.t = "num" /\ v.n # 0)

\* mapping.get(key)
Get(v) == IF v.t = "absent" THEN None ELSE v

\* mapping.get(key, default)
GetD(v, dflt) == IF v.t = "absent" THEN dflt ELSE v

\* x or y
Or(v, w) == IF Truthy(v) THEN v ELSE w

GetStrD(s, dflt) == IF s = AbsentStr THEN dflt ELSE s

\* f"Building {chr(65 + i)}", i counted from 0
DefaultName(i) ==
    <<"Building A", "Building B", "Building C", "Building D",
      "Building E", "Building F", "Building G", "Building H">>[i + 1]

----------------------------------------------------------------------------
(* _normalize_extraction_data *)

CONFIDENCE_THRESHOLD == 3

\* try: float(confidence) except (TypeError, ValueError): 0.0
ToFloat(v) == IF v.t = "num" THEN v.n ELSE 0

NoSpecifications ==
    [empty |-> TRUE, total_area_sqm |-> None, residential_units |-> None,
     use_type |-> None, ai_confidence |-> None]

NoRecord ==
    [name |-> "", height_meters |-> None, floor_count |-> None,
     floor_height_meters |-> None, roof_type |-> "", footprint |-> <<>>,
     specifications |-> NoSpecifications]

DefaultFootprint == <<<<0, 0>>, <<20, 0>>, <<20, 15>>, <<0, 15>>, <<0, 0>>>>

\* mutant: the fallback record with a single floor
DefaultBuilding_OneFloor(i, footprint) ==
    [name |-> DefaultName(i), height_meters |-> Num(10), floor_count |-> Num(1),
     floor_height_meters |-> Rat(333, 100), roof_type |-> "flat",
     footprint |-> footprint, specifications |-> NoSpecifications]

\* the record of the "elif coordinates" branch and of the final fallback
DefaultBuilding(i, footprint) ==
    [name |-> DefaultName(i), height_meters |-> Num(10), floor_count |-> Num(3),
     floor_height_meters |-> Rat(333, 100), roof_type |-> "flat",
     footprint |-> footprint, specifications |-> NoSpecifications]

\* a coordinate as the list literal holds it: a number, or the value itself
Coord(v) == IF v.t = "num" /\ v.d = 1 THEN v.n ELSE v

\* offset_x = i * (width + 10) and the five points built from it
SynthFootprint(i, w, depth) ==
    LET offset_x == i * (w + 10)
    IN <<<<offset_x, 0>>, <<offset_x + w, 0>>, <<offset_x + w, Coord(depth)>>,
         <<offset_x, Coord(depth)>>, <<offset_x, 0>>>>

RaiseR == [st |-> "raise", rec |-> NoRecord]
SkipR == [st |-> "skip", rec |-> NoRecord]

\* mutant: "confidence" read before "_confidence"
EntryConfidence_Swapped(ab, overall) ==
    ToFloat(GetD(ab.conf, GetD(ab.uconf, overall)))

\* the per-building confidence of one entry
EntryConfidence(ab, overall) == ToFloat(GetD(ab.uconf, GetD(ab.conf, overall)))

\* one iteration of "for i, ab in enumerate(ai_buildings)", i counted from 0
NormalizeEntry(i, ab, coords, overall) ==
    IF ~ab.isdict THEN RaiseR                       \* ab.get: AttributeError
    ELSE
    LET confidence == EntryConfidence(ab, overall)
        width == GetD(ab.width, Num(20))
        depth == GetD(ab.depth, Num(15))
        height == Or(Get(ab.height_meters), Num(10))
        givenFloors == Get(ab.floor_count)
        needDiv3 == ~Truthy(givenFloors)
        floors == IF Truthy(givenFloors) THEN givenFloors
                  ELSE IF height.t = "num"
                       THEN Num(Max(1, IntTrunc(height.n, 3 * height.d)))
                       ELSE None
        givenFh == Get(ab.floor_height_meters)
        needDivF == ~Truthy(givenFh)
        floor_height == IF Truthy(givenFh) THEN givenFh
                        ELSE IF height.t = "num" /\ floors.t = "num" /\ floors.n # 0
                             THEN Rat(height.n * floors.d, height.d * floors.n)
                             ELSE None
        useCoords == Len(coords) > 0 /\ i < Len(coords)
    IN  IF confidence < CONFIDENCE_THRESHOLD THEN SkipR
        ELSE IF needDiv3 /\ height.t # "num" THEN RaiseR          \* height / 3.0
        ELSE IF needDivF /\ (height.t # "num" \/ floors.t # "num")
             THEN RaiseR                                          \* height / floors
        ELSE IF ~useCoords /\ width.t # "num" THEN RaiseR         \* width + 10
        ELSE [st |-> "ok",
              rec |-> [name |-> GetStrD(ab.name, DefaultName(i)),
                       height_meters |-> height,
                       floor_count |-> floors,
                       floor_height_meters |-> floor_height,
                       roof_type |-> GetStrD(ab.roof_type, "flat"),
                       footprint |-> IF useCoords THEN coords[i + 1]
                                     ELSE SynthFootprint(i, width.n, depth),
                       specifications |->
                           [empty |-> FALSE,
                            total_area_sqm |-> Or(Get(ab.total_area_sqm),
                                                  Get(ab.footprint_area_sqm)),
                            residential_units |-> Get(ab.units),
                            use_type |-> Get(ab.use_type),
                            ai_confidence |-> Num(confidence)]]]

Raised == [raised |-> TRUE, value |-> <<>>]
Returned(bs) == [raised |-> FALSE, value |-> bs]

\* mutant: the index given to an entry counts the surviving entries only
RECURSIVE NormalizeLoop_Compacted(_, _, _, _, _)
NormalizeLoop_Compacted(k, ai_buildings, coords, overall, acc) ==
    IF k > Len(ai_buildings) THEN Returned(acc)
    ELSE LET r == NormalizeEntry(Len(acc), ai_buildings[k], coords, overall)
         IN IF r.st = "raise" THEN Raised
            ELSE NormalizeLoop_Compacted(k + 1, ai_buildings, coords, overall,
                                         IF r.st = "ok" THEN Append(acc, r.rec) ELSE acc)

\* the loop over ai_buildings from index k (1-based) on, acc the list so far
RECURSIVE NormalizeLoop(_, _, _, _, _)
NormalizeLoop(k, ai_buildings, coords, overall, acc) ==
    IF k > Len(ai_buildings) THEN Returned(acc)
    ELSE LET r == NormalizeEntry(k - 1, ai_buildings[k], coords, overall)
         IN IF r.st = "raise" THEN Raised
            ELSE NormalizeLoop(k + 1, ai_buildings, coords, overall,
                               IF r.st = "ok" THEN Append(acc, r.rec) ELSE acc)

BaseEntry ==
    [isdict |-> TRUE, name |-> AbsentStr, roof_type |-> AbsentStr,
     height_meters |-> Absent, floor_count |-> Absent,
     floor_height_meters |-> Absent, width |-> Absent, depth |-> Absent,
     uconf |-> Absent, conf |-> Absent, total_area_sqm |-> Absent,
     footprint_area_sqm |-> Absent, units |-> Absent, use_type |-> Absent]

\* the one-element list built from a floor-plan style record
ReshapedEntry(interp, overall) ==
    [BaseEntry EXCEPT
        !.name = "Building A",
        !.height_meters = Get(interp.total_height_meters),
        !.floor_count = Get(interp.floor_count),
        !.floor_height_meters = Get(interp.floor_height_meters),
        !.footprint_area_sqm = Get(interp.dims.estimated_area_sqm),
        !.width = GetD(interp.dims.width_meters, Num(20)),
        !.depth = GetD(interp.dims.depth_meters, Num(15)),
        !.roof_type = GetStrD(interp.roof_type, "flat"),
        !.uconf = overall]

\* mutant: the polygons taken in reverse order
FromCoordinates_Reversed(coords) ==
    [i \in 1..Len(coords) |-> DefaultBuilding(i - 1, coords[Len(coords) + 1 - i])]

\* the "elif extraction_dict.get('coordinates')" branch
FromCoordinates(coords) ==
    [i \in 1..Len(coords) |-> DefaultBuilding(i - 1, coords[i])]

NormalizeExtractionData(coords, interp) ==
    LET overall == IF interp.isdict THEN GetD(interp.confidence, Num(0)) ELSE Num(0)
        bk == IF interp.isdict THEN interp.buildings.k ELSE "absent"
        got == IF bk = "list" THEN interp.buildings.items ELSE <<>>
        gotFalsy == bk \in {"absent", "none"} \/ (bk = "list" /\ got = <<>>)
        reshape == interp.isdict /\ gotFalsy /\ interp.dims.k # "absent"
    IN  IF reshape /\ interp.dims.k = "none" THEN Raised      \* dims.get: AttributeError
        ELSE IF bk = "str" THEN Raised                        \* a character has no .get
        ELSE LET ai_buildings == IF reshape THEN <<ReshapedEntry(interp, overall)>>
                                 ELSE got
             IN IF ai_buildings # <<>>
                THEN NormalizeLoop(1, ai_buildings, coords, overall, <<>>)
                ELSE IF coords # <<>> THEN Returned(FromCoordinates(coords))
                ELSE Returned(<<DefaultBuilding(0, DefaultFootprint)>>)


----------------------------------------------------------------------------
(* Arguments of a normalizer call, drawn from bounded sets *)

\* AI building entries: a non-mapping, and mappings that vary the confidence
\* keys, the size keys and the height keys (malformed values included)
ConfEntries ==
    {[BaseEntry EXCEPT !.uconf = u, !.conf = c] :
        u \in {Absent, None, Str, Num(2), Num(3)}, c \in {Absent, Num(9)}}

SizeEntries ==
    {[BaseEntry EXCEPT !.uconf = Num(8), !.width = w, !.depth = dd] :
        w \in {Num(5), Num(50)}, dd \in {Absent, Num(10)}}
    \cup {[BaseEntry EXCEPT !.uconf = Num(8), !.width = None]}

HeightEntries ==
    {[BaseEntry EXCEPT !.uconf = Num(8), !.height_meters = h] :
        h \in {None, Num(0), Num(-6), Num(15), Str}}
    \cup {[BaseEntry EXCEPT !.uconf = Num(8), !.height_meters = h,
                            !.floor_count = Num(5), !.floor_height_meters = fh] :
            h \in {Num(15), Str}, fh \in {Absent, Num(3)}}
    \cup {[BaseEntry EXCEPT !.uconf = Num(8), !.height_meters = Num(15),
                            !.floor_count = Str],
          [BaseEntry EXCEPT !.uconf = Num(1), !.height_meters = Str]}

NamedEntries ==
    {[BaseEntry EXCEPT !.uconf = Num(8), !.name = "Tower A", !.roof_type = "gabled",
                       !.height_meters = Num(30), !.floor_count = Num(10),
                       !.width = Num(25), !.depth = Num(20),
                       !.total_area_sqm = Num(500), !.units = Num(32), !.use_type = Str]}

NonMapping == [BaseEntry EXCEPT !.isdict = FALSE]

Entries == ConfEntries \cup SizeEntries \cup HeightEntries \cup NamedEntries
           \cup {NonMapping}

\* extracted polygons: a closed ring, and a three-point polyline left open
ClosedSquare == <<<<0, 0>>, <<10, 0>>, <<10, 10>>, <<0, 10>>, <<0, 0>>>>
OpenTriangle == <<<<0, 0>>, <<10, 0>>, <<10, 10>>>>
Polygons == {ClosedSquare, OpenTriangle}

NoDims == [k |-> "absent", width_meters |-> Absent, depth_meters |-> Absent,
           estimated_area_sqm |-> Absent]

EmptyInterp ==
    [isdict |-> TRUE, buildings |-> [k |-> "absent", items |-> <<>>], dims |-> NoDims,
     confidence |-> Absent, total_height_meters |-> Absent, floor_count |-> Absent,
     floor_height_meters |-> Absent, roof_type |-> AbsentStr]

NotADict == [EmptyInterp EXCEPT !.isdict = FALSE]

\* interpretations that carry a buildings list (entries are appended by AddBuilding)
ListInterps ==
    {[EmptyInterp EXCEPT !.buildings = [k |-> "list", items |-> <<>>],
                         !.confidence = c] : c \in {Absent, Num(5)}}

\* interpretations without a usable list: floor-plan and elevation style records
\* and malformed ones
RecordInterps ==
    {[EmptyInterp EXCEPT !.buildings = [k |-> bk, items |-> <<>>],
                         !.dims = dm, !.confidence = c,
                         !.total_height_meters = h, !.roof_type = rt] :
        bk \in {"absent", "none", "str"},
        dm \in {NoDims,
                [NoDims EXCEPT !.k = "none"],
                [NoDims EXCEPT !.k = "dict"],
                [k |-> "dict", width_meters |-> Num(30), depth_meters |-> Num(20),
                 estimated_area_sqm |-> Num(600)]},
        c \in {Absent, Num(2), Num(7)},
        h \in {Absent, Num(15), Num(-6)},
        rt \in {AbsentStr, "gabled"}}

Interps == {NotADict} \cup ListInterps \cup RecordInterps

\* no normalizer call is being made
NormIdle ==
    /\ n_pc = "idle"
    /\ n_interp = EmptyInterp
    /\ n_coords = <<>>
    /\ n_out = Returned(<<>>)

NormInit ==
    /\ n_pc = "input"
    /\ n_interp \in Interps
    /\ n_coords = <<>>
    /\ n_out = Returned(<<>>)

\* the AI returns one more entry in its buildings list
AddBuilding ==
    /\ n_pc = "input"
    /\ n_interp.isdict
    /\ n_interp.buildings.k = "list"
    /\ Len(n_interp.buildings.items) < MaxEntries
    /\ \E e \in Entries :
          n_interp' = [n_interp EXCEPT !.buildings.items = Append(@, e)]
    /\ UNCHANGED <<n_pc, n_coords, n_out>>
    /\ UNCHANGED NormOthers

\* the extractor found one more polygon
AddPolygon ==
    /\ n_pc = "input"
    /\ Len(n_coords) < MaxPolys
    /\ \E p \in Polygons : n_coords' = Append(n_coords, p)
    /\ UNCHANGED <<n_pc, n_interp, n_out>>
    /\ UNCHANGED NormOthers

\* the call _normalize_extraction_data(extraction_result, interpretation_result)
Normalize ==
    /\ n_pc = "input"
    /\ n_pc' = "done"
    /\ n_out' = NormalizeExtractionData(n_coords, n_interp)
    /\ UNCHANGED <<n_interp, n_coords>>
    /\ UNCHANGED NormOthers

NormNext == AddBuilding \/ AddPolygon \/ Normalize

----------------------------------------------------------------------------
(* Properties of the normalizer, checked under SpecNorm *)

n_items == n_interp.buildings.items

\* the call was made on a non-empty buildings list whose entries are mappings
n_listCall ==
    /\ n_pc = "done"
    /\ n_interp.isdict
    /\ n_interp.buildings.k = "list"
    /\ n_items # <<>>
    /\ \A i \in 1..Len(n_items) : n_items[i].isdict

\* the interpretation yields no AI buildings: no list (or an empty one, or null)
\* and no building_dimensions
n_noAiBuildings ==
    \/ ~n_interp.isdict
    \/ /\ n_interp.dims.k = "absent"
       /\ \/ n_interp.buildings.k \in {"absent", "none"}
          \/ n_interp.buildings.k = "list" /\ n_items = <<>>

NumberOr0(v) == IF v.t = "num" THEN v.n ELSE 0

\* the effective confidence of an entry, in tenths, as the claim words it
Effective(ab) ==
    IF ab.uconf # Absent THEN NumberOr0(ab.uconf)
    ELSE IF ab.conf # Absent THEN NumberOr0(ab.conf)
    ELSE NumberOr0(n_interp.confidence)

\* positions (1-based) of the entries at or above 0.3, in list order
Survivors ==
    SelectSeq([i \in 1..Len(n_items) |-> i], LAMBDA i : Effective(n_items[i]) >= 3)

\* C1: for a non-empty AI buildings list, an entry is in the output iff its
\* effective confidence (_confidence, else confidence, else the overall one,
\* non-numeric counting as 0.0) is >= 0.3; entries below are dropped without an
\* error (only a surviving entry can make the call fail), and the survivors keep
\* their relative order.
C1_ConfidenceFilter ==
    n_listCall =>
        /\ n_out.raised => Survivors # <<>>
        /\ ~n_out.raised =>
              /\ Len(n_out.value) = Len(Survivors)
              /\ \A k \in 1..Len(Survivors) :
                    LET i == Survivors[k]
                        b == n_out.value[k]
                    IN /\ b.specifications.ai_confidence = Num(Effective(n_items[i]))
                       /\ b.name = IF n_items[i].name = AbsentStr
                                   THEN DefaultName(i - 1) ELSE n_items[i].name

C1_Witness ==
    /\ n_listCall
    /\ ~n_out.raised
    /\ Len(n_items) = 2
    /\ Len(n_out.value) = 1
    /\ n_items[1].uconf = Num(2) /\ n_items[1].conf = Num(9)
    /\ n_items[2].uconf = Absent /\ n_items[2].conf = Absent
    /\ n_interp.confidence = Num(5)
    /\ n_out.value[1].name = "Building B"

\* C2: _normalize_extraction_data never raises, whatever the extraction and the
\* interpretation are.
C2_NeverRaises == n_pc = "done" => ~n_out.raised

\* C3: with no coordinates and an interpretation that carries neither a buildings
\* list nor building_dimensions, the result is exactly one record: "Building A",
\* 10.0 m, 3 floors, flat roof, the closed 20x15 rectangle at the origin.
C3_DefaultBuilding ==
    (n_pc = "done" /\ n_coords = <<>> /\ n_interp.isdict /\ n_noAiBuildings) =>
        /\ ~n_out.raised
        /\ Len(n_out.value) = 1
        /\ n_out.value[1].name = "Building A"
        /\ n_out.value[1].height_meters = Num(10)
        /\ n_out.value[1].floor_count = Num(3)
        /\ n_out.value[1].roof_type = "flat"
        /\ n_out.value[1].footprint =
              <<<<0, 0>>, <<20, 0>>, <<20, 15>>, <<0, 15>>, <<0, 0>>>>

C3_Witness ==
    /\ n_pc = "done"
    /\ n_coords = <<>>
    /\ n_interp = EmptyInterp
    /\ Len(n_out.value) = 1

\* C4: with no AI buildings and k >= 1 coordinate polygons the result has exactly
\* k records in polygon order, the i-th with the i-th polygon unchanged as its
\* footprint, height 10, 3 floors, floor height 3.33, flat roof and empty
\* specifications.
C4_CoordinateFallback ==
    (n_pc = "done" /\ Len(n_coords) >= 1 /\ n_noAiBuildings) =>
        /\ ~n_out.raised
        /\ Len(n_out.value) = Len(n_coords)
        /\ \A i \in 1..Len(n_coords) :
              LET b == n_out.value[i]
              IN /\ b.footprint = n_coords[i]
                 /\ b.height_meters = Num(10)
                 /\ b.floor_count = Num(3)
                 /\ b.floor_height_meters = [t |-> "num", n |-> 333, d |-> 100]
                 /\ b.roof_type = "flat"
                 /\ b.specifications.empty

C4_Witness ==
    /\ n_pc = "done"
    /\ n_interp = EmptyInterp
    /\ n_coords = <<ClosedSquare, OpenTriangle>>
    /\ Len(n_out.value) = 2

\* C5: every returned record has height_meters > 0, floor_count an integer >= 1
\* and floor_height_meters > 0, whatever values the AI supplied.
C5_PositiveDimensions ==
    (n_pc = "done" /\ ~n_out.raised) =>
        \A k \in 1..Len(n_out.value) :
            LET b == n_out.value[k]
            IN /\ b.height_meters.t = "num" /\ b.height_meters.n > 0
               /\ b.floor_count.t = "num" /\ b.floor_count.d = 1
               /\ b.floor_count.n >= 1
               /\ b.floor_height_meters.t = "num" /\ b.floor_height_meters.n > 0

\* C6: every returned record has a closed footprint: at least 4 points, the first
\* equal to the last, synthesized or taken from the extracted coordinates.
C6_ClosedFootprint ==
    (n_pc = "done" /\ ~n_out.raised) =>
        \A k \in 1..Len(n_out.value) :
            LET fp == n_out.value[k].footprint
            IN Len(fp) >= 4 /\ fp[1] = fp[Len(fp)]

\* C7: with no extracted coordinates, the rectangles synthesized for two distinct
\* accepted entries never overlap: their x-intervals are disjoint.
C7_NoOverlap ==
    (n_listCall /\ ~n_out.raised /\ n_coords = <<>>) =>
        \A k, l \in 1..Len(n_out.value) :
            k # l =>
                LET lo(j) == n_out.value[j].footprint[1][1]
                    hi(j) == n_out.value[j].footprint[2][1]
                IN hi(k) < lo(l) \/ hi(l) < lo(k)

\* C28: the extracted polygon used as footprint, the x-offset of a synthesized
\* footprint and the default name letter of a surviving AI entry are determined
\* by the entry's position i in the original AI list, dropped entries counted:
\* dropping a low-confidence entry never shifts which polygon, offset or default
\* name a later entry receives.
C28_IndexCountsDropped ==
    (n_listCall /\ ~n_out.raised) =>
        \A k \in 1..Len(Survivors) :
            LET i == Survivors[k] - 1
                ab == n_items[i + 1]
                b == n_out.value[k]
            IN /\ i < Len(n_coords) => b.footprint = n_coords[i + 1]
               /\ i >= Len(n_coords) =>
                     b.footprint[1][1] = i * (GetD(ab.width, Num(20)).n + 10)
               /\ ab.name = AbsentStr => b.name = DefaultName(i)

\* the first entry is dropped; the second one still gets the second polygon
\* and the letter B
C28_Witness ==
    /\ n_listCall
    /\ ~n_out.raised
    /\ Len(n_items) = 2
    /\ Survivors = <<2>>
    /\ n_coords = <<ClosedSquare, OpenTriangle>>
    /\ n_out.value[1].footprint = OpenTriangle
    /\ n_out.value[1].name = "Building B"

----------------------------------------------------------------------------
(* extract_pdf *)

\* result.confidence as each extractor sets it on success, in hundredths
FormatConfidence(extractor) ==
    CASE extractor = "extract_pdf" -> 70
      [] extractor = "extract_image" -> 50
      [] extractor = "extract_cad" -> 85
      [] extractor = "extract_spreadsheet" -> 90
      [] extractor = "extract_geojson" -> 95

PageTypes == {"floor_plan", "elevation", "schedule", "text"}

\* round(scores[best_type], 3) of _classify_pdf_page, in tenths
PageConfidences == {5, 8}

\* type_priority.get(type, 3)
TypePriority(type) ==
    CASE type = "floor_plan" -> 0
      [] type = "elevation" -> 1
      [] type = "schedule" -> 2
      [] OTHER -> 3

\* mutant: confidence ascending within a type
SortKeyLess_Ascending(a, b) ==
    \/ TypePriority(a.cls.type) < TypePriority(b.cls.type)
    \/ /\ TypePriority(a.cls.type) = TypePriority(b.cls.type)
       /\ a.cls.confidence < b.cls.confidence

\* the sort key (type_priority, -confidence) of a is smaller than that of b
SortKeyLess(a, b) ==
    \/ TypePriority(a.cls.type) < TypePriority(b.cls.type)
    \/ /\ TypePriority(a.cls.type) = TypePriority(b.cls.type)
       /\ -a.cls.confidence < -b.cls.confidence

\* x placed into the sorted sequence s behind every element that is not greater
RECURSIVE InsertStable(_, _)
InsertStable(s, x) ==
    IF s = <<>> THEN <<x>>
    ELSE IF SortKeyLess(x, s[1]) THEN <<x>> \o s
    ELSE <<s[1]>> \o InsertStable(Tail(s), x)

\* sorted(seq, key=...): Python's sort is stable
RECURSIVE SortedStable(_)
SortedStable(s) ==
    IF s = <<>> THEN <<>>
    ELSE InsertStable(SortedStable(SubSeq(s, 1, Len(s) - 1)), s[Len(s)])

\* enumerate(result.page_classifications)
Enumerate(cls) == [k \in 1..Len(cls) |-> [index |-> k, cls |-> cls[k]]]

\* mutant: the images left in page order
SortedImages_Unsorted(images, sorted_pages) == images

\* sorted_images = [result.images[i] for i, _ in sorted_pages]
SortedImages(images, sorted_pages) ==
    [k \in 1..Len(sorted_pages) |-> images[sorted_pages[k].index]]

\* sorted_classifications = [cls for _, cls in sorted_pages]
SortedClassifications(sorted_pages) ==
    [k \in 1..Len(sorted_pages) |-> sorted_pages[k].cls]

\* type_counts of the summary
TypeCounts(cls) ==
    [t \in PageTypes |-> Cardinality({k \in 1..Len(cls) : cls[k].type = t})]

NoTypeCounts == [t \in PageTypes |-> 0]

\* no extraction is running
PdfIdle ==
    /\ p_pc = "idle"
    /\ p_count = 0
    /\ p_page = 0
    /\ p_text = 0
    /\ p_images = <<>>
    /\ p_cls = <<>>
    /\ p_meta = [page_count |-> -1, page_types |-> NoTypeCounts]
    /\ p_confidence = 0
    /\ p_errors = <<>>

PdfInit ==
    /\ p_pc = "open"
    /\ p_count \in 0..MaxPages
    /\ p_page = 0
    /\ p_text = 0
    /\ p_images = <<>>
    /\ p_cls = <<>>
    /\ p_meta = [page_count |-> -1, page_types |-> NoTypeCounts]
    /\ p_confidence = 0
    /\ p_errors = <<>>

\* except Exception as e: result.errors.append(...); return result
PdfFail ==
    /\ p_errors' = Append(p_errors, "PDF extraction error")
    /\ p_pc' = "done"

\* doc = fitz.open(file_path); metadata
PdfOpen ==
    /\ p_pc = "open"
    /\ \/ /\ p_meta' = [p_meta EXCEPT !.page_count = p_count]
          /\ p_pc' = IF p_count = 0 THEN "sort" ELSE "text"
          /\ UNCHANGED p_errors
       \/ PdfFail /\ UNCHANGED p_meta
    /\ UNCHANGED <<p_count, p_page, p_text, p_images, p_cls, p_confidence>>
    /\ UNCHANGED PdfOthers

\* page_text = page.get_text(); result.text_content += page_text
PdfGetText ==
    /\ p_pc = "text"
    /\ \/ /\ p_text' = p_text + 1
          /\ p_pc' = "render"
          /\ UNCHANGED p_errors
       \/ PdfFail /\ UNCHANGED p_text
    /\ UNCHANGED <<p_count, p_page, p_images, p_cls, p_meta, p_confidence>>
    /\ UNCHANGED PdfOthers

\* pix = page.get_pixmap(dpi=300); image_bytes = pix.tobytes("png"); images.append
PdfRender ==
    /\ p_pc = "render"
    /\ \/ /\ p_images' = Append(p_images, p_page)
          /\ p_pc' = "classify"
          /\ UNCHANGED p_errors
       \/ PdfFail /\ UNCHANGED p_images
    /\ UNCHANGED <<p_count, p_page, p_text, p_cls, p_meta, p_confidence>>
    /\ UNCHANGED PdfOthers

\* classification = _classify_pdf_page(...); page_classifications.append
\* (the classifier catches its own exceptions and returns the default record)
PdfClassify ==
    /\ p_pc = "classify"
    /\ \E t \in PageTypes, c \in PageConfidences :
          p_cls' = Append(p_cls, [page |-> p_page, type |-> t, confidence |-> c])
    /\ p_page' = p_page + 1
    /\ p_pc' = IF p_page + 1 < p_count THEN "text" ELSE "sort"
    /\ UNCHANGED <<p_count, p_text, p_images, p_meta, p_confidence, p_errors>>
    /\ UNCHANGED PdfOthers

\* doc.close(); the sort of both lists; the summary; result.confidence = 0.7
PdfSort ==
    /\ p_pc = "sort"
    /\ LET sorted_pages == SortedStable(Enumerate(p_cls))
       IN /\ p_images' = SortedImages(p_images, sorted_pages)
          /\ p_cls' = SortedClassifications(sorted_pages)
          /\ p_meta' = [p_meta EXCEPT
                          !.page_types = TypeCounts(SortedClassifications(sorted_pages))]
    /\ p_confidence' = FormatConfidence("extract_pdf")
    /\ p_pc' = "log"
    /\ UNCHANGED <<p_count, p_page, p_text, p_errors>>
    /\ UNCHANGED PdfOthers

\* logger.info(f"PDF extracted: {len(doc)} pages ...") on the closed document:
\* len() of a closed document may raise, which the except clause records
PdfLog ==
    /\ p_pc = "log"
    /\ \/ p_pc' = "done" /\ UNCHANGED p_errors
       \/ PdfFail
    /\ UNCHANGED <<p_count, p_page, p_text, p_images, p_cls, p_meta, p_confidence>>
    /\ UNCHANGED PdfOthers

PdfNext == PdfOpen \/ PdfGetText \/ PdfRender \/ PdfClassify \/ PdfSort \/ PdfLog

----------------------------------------------------------------------------
(* process_document *)

\* max_retries of the task decorator
MAX_RETRIES == 3

\* the keys of the extractors registry of extract_from_file
RegisteredTypes ==
    {"pdf", "jpg", "jpeg", "png", "tiff", "dwg", "dxf", "xlsx", "csv", "geojson"}

\* extractors.get(file_type)
Extractor(type) ==
    CASE type = "pdf" -> "extract_pdf"
      [] type \in {"jpg", "jpeg", "png", "tiff"} -> "extract_image"
      [] type \in {"dwg", "dxf"} -> "extract_cad"
      [] type \in {"xlsx", "csv"} -> "extract_spreadsheet"
      [] type = "geojson" -> "extract_geojson"
      [] OTHER -> "none"

\* file types of the documents processed here ("docx" has no extractor)
FileTypes == {"pdf", "png", "dxf", "csv", "geojson", "docx"}

EmptyExtraction ==
    [images |-> <<>>, cls |-> <<>>, has_text |-> FALSE, coords |-> <<>>,
     confidence |-> 0, errors |-> 0]

\* what extract_pdf returns for a file of at most MaxDocPages pages
PdfExtractions ==
    LET raw(n) == [1..n -> {[page |-> 0, type |-> t, confidence |-> 8] : t \in PageTypes}]
        numbered(f) == [k \in 1..Len(f) |-> [f[k] EXCEPT !.page = k - 1]]
        sorted(c) == SortedStable(Enumerate(c))
    IN {[EmptyExtraction EXCEPT
            !.images = SortedImages([k \in 1..Len(f) |-> k - 1], sorted(numbered(f))),
            !.cls = SortedClassifications(sorted(numbered(f))),
            !.has_text = txt, !.confidence = FormatConfidence("extract_pdf")] :
          f \in UNION {raw(n) : n \in 0..MaxDocPages}, txt \in BOOLEAN}

\* extract_from_file(tmp_path, document.file_type)
ExtractFromFile(type) ==
    IF type \notin RegisteredTypes
    THEN {[EmptyExtraction EXCEPT !.errors = 1]}
    ELSE {[EmptyExtraction EXCEPT !.errors = 1]} \cup
         CASE type = "pdf" -> PdfExtractions
           [] Extractor(type) = "extract_image" ->
                {[EmptyExtraction EXCEPT !.images = <<0>>, !.has_text = txt,
                                         !.confidence = FormatConfidence("extract_image")] :
                    txt \in BOOLEAN}
           [] Extractor(type) = "extract_cad" ->
                {[EmptyExtraction EXCEPT !.coords = c,
                                         !.confidence = FormatConfidence("extract_cad")] :
                    c \in {<<>>, <<OpenTriangle>>, <<ClosedSquare>>}}
           [] Extractor(type) = "extract_spreadsheet" ->
                {[EmptyExtraction EXCEPT !.has_text = TRUE,
                                         !.confidence = FormatConfidence("extract_spreadsheet")]}
           [] OTHER ->
                {[EmptyExtraction EXCEPT !.coords = c,
                                         !.confidence = FormatConfidence("extract_geojson")] :
                    c \in {<<>>, <<ClosedSquare>>}}

FloorPlanDims ==
    [k |-> "dict", width_meters |-> Num(30), depth_meters |-> Num(20),
     estimated_area_sqm |-> Num(600)]

\* what an interpreter call may return: a floor-plan record, an elevation record,
\* a buildings list, a list with a malformed entry, the error sentinel, and JSON
\* that is not an object
AiFloorPlan(c) ==
    [EmptyInterp EXCEPT !.dims = FloorPlanDims, !.confidence = Num(c),
                        !.total_height_meters = Num(15), !.floor_count = Num(5),
                        !.roof_type = "gabled"]

AiElevation ==
    [EmptyInterp EXCEPT !.confidence = Num(8), !.total_height_meters = Num(14),
                        !.floor_count = Num(4), !.floor_height_meters = Num(3),
                        !.roof_type = "gabled"]

AiBuildingsList ==
    [EmptyInterp EXCEPT
        !.confidence = Num(9),
        !.buildings = [k |-> "list",
                       items |-> <<[BaseEntry EXCEPT !.name = "Tower A",
                                                     !.height_meters = Num(30),
                                                     !.floor_count = Num(10),
                                                     !.width = Num(25),
                                                     !.depth = Num(20)]>>]]

AiMalformedList ==
    [EmptyInterp EXCEPT !.confidence = Num(9),
                        !.buildings = [k |-> "list", items |-> <<NonMapping>>]]

AiSentinel == [EmptyInterp EXCEPT !.confidence = Num(0)]

AiResults ==
    {AiFloorPlan(7), AiFloorPlan(2), AiElevation, AiBuildingsList, AiMalformedList,
     AiSentinel, NotADict}

\* an interpreter call: a result, or an exception out of asyncio.run
CallOutcomes == [raised : {FALSE}, result : AiResults]
                \cup {[raised |-> TRUE, result |-> NotADict]}

\* result.get("buildings") is truthy
HasBuildings(r) ==
    \/ r.buildings.k = "str"
    \/ r.buildings.k = "list" /\ r.buildings.items # <<>>

\* result.get("building_dimensions") is truthy
HasDims(r) ==
    /\ r.dims.k = "dict"
    /\ \/ r.dims.width_meters # Absent
       \/ r.dims.depth_meters # Absent
       \/ r.dims.estimated_area_sqm # Absent

\* what an interpreter call gave, as the page loop tells results apart
ResultKind(out) ==
    IF out.raised THEN "raised"
    ELSE IF ~out.result.isdict THEN "nothing"
    ELSE IF HasBuildings(out.result) THEN "buildings"
    ELSE IF HasDims(out.result) THEN "dimensions"
    ELSE IF out.result.total_height_meters # Absent THEN "elevation"
    ELSE "nothing"

\* the floor-plan record itself appended to all_buildings, tagged _confidence:
\* as an entry it is read through the entry's keys
WrapRecord(r, img_confidence) ==
    [BaseEntry EXCEPT !.floor_count = r.floor_count,
                      !.floor_height_meters = r.floor_height_meters,
                      !.roof_type = r.roof_type,
                      !.conf = r.confidence,
                      !.uconf = img_confidence]

\* b.setdefault("_confidence", img_confidence)
SetDefaultConfidence(b, img_confidence) ==
    IF b.uconf = Absent THEN [b EXCEPT !.uconf = img_confidence] ELSE b

\* mutant: only text pages are passed over
SkipsPage_TextOnly(page_type) == page_type = "text"

\* if page_type in ("text", "schedule"): continue
SkipsPage(page_type) == page_type \in {"text", "schedule"}

\* the page type the loop uses for image img_idx (counted from 0)
PageType(ext, img_idx) ==
    IF img_idx < Len(ext.cls) THEN ext.cls[img_idx + 1].type ELSE "unknown"

DocLocalsReset ==
    /\ d_tmp_path' = FALSE
    /\ d_ext' = EmptyExtraction
    /\ d_idx' = 0
    /\ d_all' = <<>>
    /\ d_calls' = <<>>
    /\ d_interp' = EmptyInterp
    /\ d_norm' = <<>>
    /\ d_k' = 0
    /\ d_outcome' = "none"

DocIdle ==
    /\ d_pc = "idle"
    /\ d_type = "pdf"
    /\ d_file = EmptyExtraction
    /\ d_status = "pending"
    /\ d_data = "none"
    /\ d_retries = 0
    /\ d_tmp = "none"
    /\ d_tmp_path = FALSE
    /\ d_ext = EmptyExtraction
    /\ d_idx = 0
    /\ d_all = <<>>
    /\ d_calls = <<>>
    /\ d_interp = EmptyInterp
    /\ d_norm = <<>>
    /\ d_k = 0
    /\ d_pending = {}
    /\ d_broken = FALSE
    /\ d_buildings = {}
    /\ d_jobs = {}
    /\ d_next_id = 1
    /\ d_outcome = "none"

\* the upload left a pending document and dispatched process_document
DocInit ==
    /\ d_pc = "start"
    /\ d_type \in FileTypes
    /\ d_file \in ExtractFromFile(d_type)
    /\ d_status = "pending"
    /\ d_data = "none"
    /\ d_retries = 0
    /\ d_tmp = "none"
    /\ d_tmp_path = FALSE
    /\ d_ext = EmptyExtraction
    /\ d_idx = 0
    /\ d_all = <<>>
    /\ d_calls = <<>>
    /\ d_interp = EmptyInterp
    /\ d_norm = <<>>
    /\ d_k = 0
    /\ d_pending = {}
    /\ d_broken = FALSE
    /\ d_buildings = {}
    /\ d_jobs = {}
    /\ d_next_id = 1
    /\ d_outcome = "none"

\* document.processing_status = "processing"; session.commit()
DocStart ==
    /\ d_pc = "start"
    /\ d_status' = "processing"
    /\ d_pc' = "download"
    /\ UNCHANGED <<d_type, d_file, d_data, d_retries, d_tmp, d_tmp_path, d_ext, d_idx, d_all,
                   d_calls, d_interp, d_norm, d_k, d_pending, d_broken, d_buildings,
                   d_jobs, d_next_id, d_outcome>>
    /\ UNCHANGED DocOthers

\* file_data = _download_from_storage(document.storage_url)
DocDownload ==
    /\ d_pc = "download"
    /\ d_pc' \in {"tmpfile", "except"}
    /\ UNCHANGED <<d_type, d_file, d_status, d_data, d_retries, d_tmp, d_tmp_path, d_ext, d_idx,
                   d_all, d_calls, d_interp, d_norm, d_k, d_pending, d_broken,
                   d_buildings, d_jobs, d_next_id, d_outcome>>
    /\ UNCHANGED DocOthers

\* with tempfile.NamedTemporaryFile(..., delete=False) as tmp:
\*     tmp.write(file_data); tmp_path = tmp.name
DocWriteTemp ==
    /\ d_pc = "tmpfile"
    /\ d_tmp' = "exists"
    /\ \/ d_tmp_path' = TRUE /\ d_pc' = "extract"
       \/ d_tmp_path' = FALSE /\ d_pc' = "except"       \* tmp.write raised
    /\ UNCHANGED <<d_type, d_file, d_status, d_data, d_retries, d_ext, d_idx, d_all, d_calls,
                   d_interp, d_norm, d_k, d_pending, d_broken, d_buildings, d_jobs,
                   d_next_id, d_outcome>>
    /\ UNCHANGED DocOthers

\* extraction_result = extract_from_file(tmp_path, document.file_type)
DocExtract ==
    /\ d_pc = "extract"
    /\ d_ext' = d_file
    /\ d_pc' = "interpret"
    /\ UNCHANGED <<d_type, d_file, d_status, d_data, d_retries, d_tmp, d_tmp_path, d_idx, d_all,
                   d_calls, d_interp, d_norm, d_k, d_pending, d_broken, d_buildings,
                   d_jobs, d_next_id, d_outcome>>
    /\ UNCHANGED DocOthers

\* the end of the interpretation step: all_buildings merged into one result
MergedInterpretation(all) ==
    IF all # <<>>
    THEN [EmptyInterp EXCEPT !.buildings = [k |-> "list", items |-> all]]
    ELSE EmptyInterp

\* where the loop stands after a page: [all, idx, interp, pc]
\* the iteration ends normally (or by "continue"): the next page, or the merge
LoopAdvance(all, idx, ext, interp) ==
    LET last == idx + 1 = Len(ext.images)
    IN [all |-> all, idx |-> idx + 1,
        interp |-> IF last THEN MergedInterpretation(all) ELSE interp,
        pc |-> IF last THEN "normalize" ELSE "interpret"]

\* the outer "except Exception": the loop is left, interpretation_result stays {}
LoopAbandon(all, idx, ext, interp) ==
    [all |-> all, idx |-> idx, interp |-> EmptyInterp, pc |-> "normalize"]

\* an interpreter exception that leaves the loop
PageFailed_Abandons(all, idx, ext, interp) == LoopAbandon(all, idx, ext, interp)

\* except Exception as img_err: logger.warning(...); continue
PageFailed(all, idx, ext, interp) == LoopAdvance(all, idx, ext, interp)

\* mutant: a record without building_dimensions is appended as well
PageMerged_AnyRecord(result, all, idx, ext, interp) ==
    IF ~result.isdict THEN LoopAdvance(all, idx, ext, interp)
    ELSE LoopAdvance(Append(all, WrapRecord(result, GetD(result.confidence, Num(0)))),
                     idx, ext, interp)

\* the merge of one page's result into all_buildings
PageMerged(result, all, idx, ext, interp) ==
    IF ~result.isdict THEN LoopAdvance(all, idx, ext, interp)
    ELSE LET img_confidence == GetD(result.confidence, Num(0))
         IN IF HasBuildings(result)
            THEN IF \/ result.buildings.k = "str"
                    \/ \E j \in 1..Len(result.buildings.items) :
                          ~result.buildings.items[j].isdict
                 THEN LoopAbandon(all, idx, ext, interp)   \* b.setdefault: AttributeError
                 ELSE LoopAdvance(all \o
                        [j \in 1..Len(result.buildings.items) |->
                           SetDefaultConfidence(result.buildings.items[j], img_confidence)],
                        idx, ext, interp)
            ELSE IF HasDims(result)
                 THEN LoopAdvance(Append(all, WrapRecord(result, img_confidence)),
                                  idx, ext, interp)
                 ELSE LoopAdvance(all, idx, ext, interp)

\* one iteration of "for img_idx, image_data in enumerate(extraction_result.images)"
DocInterpretPage ==
    /\ d_pc = "interpret"
    /\ d_idx < Len(d_ext.images)
    /\ LET page_type == PageType(d_ext, d_idx)
           goes(r) ==
               /\ d_all' = r.all
               /\ d_idx' = r.idx
               /\ d_interp' = r.interp
               /\ d_pc' = r.pc
           advance == goes(LoopAdvance(d_all, d_idx, d_ext, d_interp))
           failed == goes(PageFailed(d_all, d_idx, d_ext, d_interp))
           merge(result) == goes(PageMerged(result, d_all, d_idx, d_ext, d_interp))
       IN IF SkipsPage(page_type)
          THEN advance /\ UNCHANGED d_calls
          ELSE \E first \in CallOutcomes :
                 LET fn1 == IF page_type = "elevation" THEN "elevation" ELSE "floor_plan"
                     call1 == [page |-> d_idx, fn |-> fn1, raised |-> first.raised,
                               result |-> ResultKind(first)]
                 IN IF first.raised
                    THEN failed /\ d_calls' = Append(d_calls, call1)
                    ELSE IF page_type \in {"floor_plan", "elevation"}
                    THEN merge(first.result) /\ d_calls' = Append(d_calls, call1)
                    ELSE IF first.result.isdict
                            /\ (HasBuildings(first.result) \/ HasDims(first.result))
                    THEN merge(first.result) /\ d_calls' = Append(d_calls, call1)
                    ELSE \* unknown page, nothing found: the elevation call follows;
                         \* a truthy non-object JSON makes result.get raise instead,
                         \* which the page's except clause catches
                         \/ /\ ~first.result.isdict
                            /\ failed
                            /\ d_calls' = Append(d_calls, call1)
                         \/ \E second \in CallOutcomes :
                               /\ d_calls' = d_calls \o
                                     <<call1, [page |-> d_idx, fn |-> "elevation",
                                               raised |-> second.raised,
                                               result |-> ResultKind(second)]>>
                               /\ IF second.raised THEN failed
                                  ELSE merge(second.result)
    /\ UNCHANGED <<d_type, d_file, d_status, d_data, d_retries, d_tmp, d_tmp_path, d_ext,
                   d_norm, d_k, d_pending, d_broken, d_buildings, d_jobs, d_next_id,
                   d_outcome>>
    /\ UNCHANGED DocOthers

\* no images: "elif extraction_result.text_content.strip()" and the text call,
\* or neither branch
DocInterpretText ==
    /\ d_pc = "interpret"
    /\ Len(d_ext.images) = 0
    /\ IF d_ext.has_text
       THEN \E out \in CallOutcomes :
              /\ d_interp' = IF out.raised THEN EmptyInterp ELSE out.result
              /\ d_calls' = Append(d_calls, [page |-> 0, fn |-> "text",
                                             raised |-> out.raised,
                                             result |-> ResultKind(out)])
       ELSE d_interp' = EmptyInterp /\ UNCHANGED d_calls
    /\ d_pc' = "normalize"
    /\ UNCHANGED <<d_type, d_file, d_status, d_data, d_retries, d_tmp, d_tmp_path, d_ext, d_idx,
                   d_all, d_norm, d_k, d_pending, d_broken, d_buildings, d_jobs,
                   d_next_id, d_outcome>>
    /\ UNCHANGED DocOthers

\* ClaudeInterpreter() raises (no API key, import error): caught, result stays {}
DocInterpreterUnavailable ==
    /\ d_pc = "interpret"
    /\ d_idx = 0
    /\ d_interp' = EmptyInterp
    /\ d_pc' = "normalize"
    /\ UNCHANGED <<d_type, d_file, d_status, d_data, d_retries, d_tmp, d_tmp_path, d_ext, d_idx,
                   d_all, d_calls, d_norm, d_k, d_pending, d_broken, d_buildings, d_jobs,
                   d_next_id, d_outcome>>
    /\ UNCHANGED DocOthers

\* normalized_buildings = _normalize_extraction_data(extraction_result, ...)
DocNormalize ==
    /\ d_pc = "normalize"
    /\ LET r == NormalizeExtractionData(d_ext.coords, d_interp)
       IN IF r.raised
          THEN d_pc' = "except" /\ UNCHANGED d_norm
          ELSE d_norm' = r.value /\ d_pc' = "create"
    /\ UNCHANGED <<d_type, d_file, d_status, d_data, d_retries, d_tmp, d_tmp_path, d_ext, d_idx,
                   d_all, d_calls, d_interp, d_k, d_pending, d_broken, d_buildings,
                   d_jobs, d_next_id, d_outcome>>
    /\ UNCHANGED DocOthers

\* if coords[0] != coords[-1]: coords.append(coords[0])   (in place, on bdata)
ClosedInPlace(bdata) ==
    LET coords == bdata.footprint
    IN IF coords # <<>> /\ coords[1] # coords[Len(coords)]
       THEN [bdata EXCEPT !.footprint = Append(coords, coords[1])]
       ELSE bdata

\* one iteration of "for bdata in normalized_buildings": the Building row is
\* added and flushed, then generate_3d_model.delay(id, bdata)
DocCreateBuilding ==
    /\ d_pc = "create"
    /\ d_k < Len(d_norm)
    /\ LET bdata == ClosedInPlace(d_norm[d_k + 1])
       IN \/ /\ d_pending' = d_pending \cup {d_next_id}
             /\ d_jobs' = d_jobs \cup {d_next_id}      \* .delay(id, bdata)
             /\ d_next_id' = d_next_id + 1
             /\ d_norm' = [d_norm EXCEPT ![d_k + 1] = bdata]
             /\ d_k' = d_k + 1
             /\ UNCHANGED <<d_pc, d_broken>>
          \/ /\ d_broken' = TRUE                          \* session.flush() raised
             /\ d_pc' = "except"
             /\ d_norm' = [d_norm EXCEPT ![d_k + 1] = bdata]
             /\ UNCHANGED <<d_pending, d_jobs, d_next_id, d_k>>
    /\ UNCHANGED <<d_type, d_file, d_status, d_data, d_retries, d_tmp, d_tmp_path, d_ext, d_idx,
                   d_all, d_calls, d_interp, d_buildings, d_outcome>>
    /\ UNCHANGED DocOthers

\* document.processing_status = "completed"; extracted_data; session.commit()
DocCommit ==
    /\ d_pc = "create"
    /\ d_k = Len(d_norm)
    /\ \/ /\ d_status' = "completed"
          /\ d_data' = "result"
          /\ d_buildings' = d_buildings \cup d_pending
          /\ d_pending' = {}
          /\ d_outcome' = "return"
          /\ d_pc' = "finally"
          /\ UNCHANGED d_broken
       \/ /\ d_pending' = {}           \* session.commit() raised and rolled back
          /\ d_pc' = "except"
          /\ UNCHANGED <<d_status, d_data, d_buildings, d_outcome, d_broken>>
    /\ UNCHANGED <<d_type, d_file, d_retries, d_tmp, d_tmp_path, d_ext, d_idx, d_all, d_calls,
                   d_interp, d_norm, d_k, d_jobs, d_next_id>>
    /\ UNCHANGED DocOthers

\* except Exception as exc: mark the document failed (the commit takes along
\* whatever the session holds).  After a failed flush the session refuses the
\* query (its transaction awaits a rollback) and the handler ends in
\* session.rollback().  Then raise self.retry(exc=exc, countdown=60)
DocExcept ==
    /\ d_pc = "except"
    /\ IF d_broken
       THEN /\ d_pending' = {}                            \* session.rollback()
            /\ UNCHANGED <<d_status, d_data, d_buildings>>
       ELSE /\ d_status' = "failed"
            /\ d_data' = "error"
            /\ d_buildings' = d_buildings \cup d_pending
            /\ d_pending' = {}
    /\ d_outcome' = IF d_retries < MAX_RETRIES THEN "retry" ELSE "fail"
    /\ d_pc' = "finally"
    /\ UNCHANGED <<d_type, d_file, d_retries, d_tmp, d_tmp_path, d_ext, d_idx, d_all, d_calls,
                   d_interp, d_norm, d_k, d_broken, d_jobs, d_next_id>>
    /\ UNCHANGED DocOthers

\* finally: session.close(); os.unlink(tmp_path), every exception ignored
DocFinally ==
    /\ d_pc = "finally"
    /\ d_tmp' = IF d_tmp_path /\ d_tmp = "exists" THEN "deleted" ELSE d_tmp
    /\ d_pending' = {}
    /\ d_pc' = IF d_outcome = "retry" THEN "retrying" ELSE "done"
    /\ UNCHANGED <<d_type, d_file, d_status, d_data, d_retries, d_tmp_path, d_ext, d_idx, d_all,
                   d_calls, d_interp, d_norm, d_k, d_broken, d_buildings, d_jobs,
                   d_next_id, d_outcome>>
    /\ UNCHANGED DocOthers

\* the task queue runs the task again after the countdown
DocRetry ==
    /\ d_pc = "retrying"
    /\ d_retries' = d_retries + 1
    /\ d_pc' = "start"
    /\ d_broken' = FALSE
    /\ d_tmp' = "none"
    /\ DocLocalsReset
    /\ UNCHANGED <<d_type, d_file, d_status, d_data, d_pending, d_buildings, d_jobs, d_next_id>>
    /\ UNCHANGED DocOthers

DocNext ==
    \/ DocStart \/ DocDownload \/ DocWriteTemp \/ DocExtract
    \/ DocInterpretPage \/ DocInterpretText \/ DocInterpreterUnavailable
    \/ DocNormalize \/ DocCreateBuilding \/ DocCommit
    \/ DocExcept \/ DocFinally \/ DocRetry

----------------------------------------------------------------------------
(* MeshyClient.poll_until_done *)

\* the "status" values a task response may carry ("" stands for a response
\* without the key: result.get("status", ""))
RawStatuses ==
    {"SUCCEEDED", "succeeded", "FAILED", "failed", "Expired", "IN_PROGRESS", "pending", ""}

\* the status compared as it came, without case folding
Upper_AsIs(st) == st

\* str.upper()
Upper(st) ==
    CASE st = "succeeded" -> "SUCCEEDED"
      [] st = "failed" -> "FAILED"
      [] st = "Expired" -> "EXPIRED"
      [] st = "pending" -> "PENDING"
      [] OTHER -> st

FetchEvent(st) == [e |-> "fetch", status |-> st]
FetchRaised == [e |-> "fetch", status |-> "<raised>"]
SleepEvent == [e |-> "sleep", status |-> ""]

PollIdle ==
    /\ m_pc = "idle"
    /\ m_timeout = 0
    /\ m_interval = 1
    /\ m_elapsed = 0
    /\ m_events = <<>>
    /\ m_outcome = "none"

\* get_fn chosen, elapsed = 0
PollInit ==
    /\ m_pc = "test"
    /\ m_timeout \in -1..MaxTimeout
    /\ m_interval \in 1..MaxInterval
    /\ m_elapsed = 0
    /\ m_events = <<>>
    /\ m_outcome = "none"

\* the loop test with the ceiling included
PollTest_Inclusive ==
    /\ m_pc = "test"
    /\ IF m_elapsed <= m_timeout
       THEN m_pc' = "fetch" /\ UNCHANGED m_outcome
       ELSE m_pc' = "done" /\ m_outcome' = "TimeoutError"
    /\ UNCHANGED <<m_timeout, m_interval, m_elapsed, m_events>>
    /\ UNCHANGED PollOthers

\* while elapsed < timeout: ... else raise TimeoutError
PollTest ==
    /\ m_pc = "test"
    /\ IF m_elapsed < m_timeout
       THEN m_pc' = "fetch" /\ UNCHANGED m_outcome
       ELSE m_pc' = "done" /\ m_outcome' = "TimeoutError"
    /\ UNCHANGED <<m_timeout, m_interval, m_elapsed, m_events>>
    /\ UNCHANGED PollOthers

\* result = await get_fn(task_id); status = result.get("status", "").upper();
\* return on SUCCEEDED, RuntimeError on FAILED / EXPIRED
PollFetch ==
    /\ m_pc = "fetch"
    /\ \/ \E st \in RawStatuses :
            /\ m_events' = Append(m_events, FetchEvent(st))
            /\ IF Upper(st) = "SUCCEEDED"
               THEN m_pc' = "done" /\ m_outcome' = "returned"
               ELSE IF Upper(st) \in {"FAILED", "EXPIRED"}
               THEN m_pc' = "done" /\ m_outcome' = "RuntimeError"
               ELSE m_pc' = "sleep" /\ UNCHANGED m_outcome
       \/ /\ m_events' = Append(m_events, FetchRaised)   \* resp.raise_for_status()
          /\ m_pc' = "done"
          /\ m_outcome' = "FetchError"
    /\ UNCHANGED <<m_timeout, m_interval, m_elapsed>>
    /\ UNCHANGED PollOthers

\* await asyncio.sleep(poll_interval); elapsed += poll_interval
PollSleep ==
    /\ m_pc = "sleep"
    /\ m_events' = Append(m_events, SleepEvent)
    /\ m_elapsed' = m_elapsed + m_interval
    /\ m_pc' = "test"
    /\ UNCHANGED <<m_timeout, m_interval, m_outcome>>
    /\ UNCHANGED PollOthers

PollNext == PollTest \/ PollFetch \/ PollSleep

----------------------------------------------------------------------------
(* generate requests, generate_3d_model_ai and generate_3d_model for one building *)

\* max_retries of generate_3d_model_ai
AI_MAX_RETRIES == 2

NoJob == [mode |-> "none", retries |-> 0]

\* how a poll_until_done call ends, as the job sees it
PollOutcomes == {"glb", "no_glb", "RuntimeError", "TimeoutError", "FetchError"}

GenIdle ==
    /\ g_status = "idle"
    /\ g_model_url = "none"
    /\ g_lod_urls = {}
    /\ g_written = FALSE
    /\ g_requests = 0
    /\ g_queue = <<>>
    /\ a_pc = "idle"
    /\ a_job = NoJob
    /\ a_glb = FALSE
    /\ a_refine = "none"
    /\ a_outcome = "none"
    /\ q_pc = "idle"
    /\ q_lods = {}
    /\ q_uploaded = {}
    /\ q_outcome = "none"

\* a building as process_document leaves it: generation_status at its default,
\* no model yet, its generate_3d_model job dispatched
GenInit ==
    /\ g_status = "idle"
    /\ g_model_url = "none"
    /\ g_lod_urls = {}
    /\ g_written = FALSE
    /\ g_requests = 0
    /\ g_queue = <<>>
    /\ a_pc = "idle"
    /\ a_job = NoJob
    /\ a_glb = FALSE
    /\ a_refine = "none"
    /\ a_outcome = "none"
    /\ q_pc = "geometry"
    /\ q_lods = {}
    /\ q_uploaded = {}
    /\ q_outcome = "none"

\* POST /{building_id}/generate and /generate-from-image: status "generating",
\* the job queued
GenerateRequest ==
    /\ g_requests < MaxRequests
    /\ g_requests' = g_requests + 1
    /\ g_status' = "generating"
    /\ \E mode \in {"text", "image"} :
          g_queue' = Append(g_queue, [mode |-> mode, retries |-> 0])
    /\ UNCHANGED <<g_model_url, g_lod_urls, g_written, a_pc, a_job, a_glb, a_refine, a_outcome,
                   q_pc, q_lods, q_uploaded, q_outcome>>
    /\ UNCHANGED GenOthers

\* a worker takes the next generate_3d_model_ai job; building.generation_status =
\* "generating"; session.commit()
AiStart ==
    /\ a_pc \in {"idle", "done"}
    /\ g_queue # <<>>
    /\ a_job' = Head(g_queue)
    /\ g_queue' = Tail(g_queue)
    /\ a_glb' = FALSE
    /\ a_refine' = "none"
    /\ a_outcome' = "none"
    /\ \/ g_status' = "generating" /\ a_pc' = "call"
       \/ a_pc' = "except" /\ UNCHANGED g_status          \* session.commit() raised
    /\ UNCHANGED <<g_model_url, g_lod_urls, g_written, g_requests,
                   q_pc, q_lods, q_uploaded, q_outcome>>
    /\ UNCHANGED GenOthers

\* client.image_to_3d / client.text_to_3d_preview; meshy_task_id committed
AiCall ==
    /\ a_pc = "call"
    /\ a_pc' \in {"poll", "except"}
    /\ UNCHANGED <<g_status, g_model_url, g_lod_urls, g_written, g_requests, g_queue,
                   a_job, a_glb, a_refine, a_outcome, q_pc, q_lods, q_uploaded, q_outcome>>
    /\ UNCHANGED GenOthers

\* result = asyncio.run(client.poll_until_done(task_id, timeout=300, ...))
AiPoll ==
    /\ a_pc = "poll"
    /\ \E out \in PollOutcomes :
          IF out \in {"glb", "no_glb"}
          THEN /\ a_glb' = (out = "glb")
               /\ a_pc' = IF a_job.mode = "text" THEN "refine" ELSE "download"
          ELSE a_pc' = "except" /\ UNCHANGED a_glb
    /\ UNCHANGED <<g_status, g_model_url, g_lod_urls, g_written, g_requests, g_queue,
                   a_job, a_refine, a_outcome, q_pc, q_lods, q_uploaded, q_outcome>>
    /\ UNCHANGED GenOthers

\* mutant: an exception of the refine step is not caught
AiRefineStep_Uncaught(out, glb) ==
    IF out \in {"glb", "no_glb"}
    THEN [pc |-> "download", glb |-> (out = "glb"), refine |-> "refined"]
    ELSE [pc |-> "except", glb |-> glb, refine |-> "failed"]

\* the refine step on its outcome: result is replaced when the refine poll
\* returns; "except Exception as refine_err" keeps the preview result
AiRefineStep(out, glb) ==
    IF out \in {"glb", "no_glb"}
    THEN [pc |-> "download", glb |-> (out = "glb"), refine |-> "refined"]
    ELSE [pc |-> "download", glb |-> glb, refine |-> "failed"]

\* text mode: refine and poll again; any exception keeps the preview result
AiRefine ==
    /\ a_pc = "refine"
    /\ \E out \in PollOutcomes \cup {"RefineCallError"} :
          /\ a_glb' = AiRefineStep(out, a_glb).glb
          /\ a_refine' = AiRefineStep(out, a_glb).refine
          /\ a_pc' = AiRefineStep(out, a_glb).pc
    /\ UNCHANGED <<g_status, g_model_url, g_lod_urls, g_written, g_requests, g_queue,
                   a_job, a_outcome, q_pc, q_lods, q_uploaded, q_outcome>>
    /\ UNCHANGED GenOthers

\* glb_url from the result (RuntimeError without one); httpx get; _upload_to_storage
AiDownloadUpload ==
    /\ a_pc = "download"
    /\ IF ~a_glb THEN a_pc' = "except"
       ELSE a_pc' \in {"write", "except"}
    /\ UNCHANGED <<g_status, g_model_url, g_lod_urls, g_written, g_requests, g_queue,
                   a_job, a_glb, a_refine, a_outcome, q_pc, q_lods, q_uploaded, q_outcome>>
    /\ UNCHANGED GenOthers

\* the record written although the commit fails
AiWrite_Partial ==
    /\ a_pc = "write"
    /\ g_model_url' = "ai"
    /\ g_lod_urls' = {0}
    /\ g_written' = TRUE
    /\ \/ g_status' = "completed" /\ a_outcome' = "return" /\ a_pc' = "done"
       \/ a_pc' = "except" /\ UNCHANGED <<g_status, a_outcome>>
    /\ UNCHANGED <<g_requests, g_queue, a_job, a_glb, a_refine, q_pc, q_lods, q_uploaded, q_outcome>>
    /\ UNCHANGED GenOthers

\* building.model_url = model_url; lod_urls = {"0": model_url};
\* generation_status = "completed"; session.commit()
AiWrite ==
    /\ a_pc = "write"
    /\ \/ /\ g_model_url' = "ai"
          /\ g_lod_urls' = {0}
          /\ g_written' = TRUE
          /\ g_status' = "completed"
          /\ a_outcome' = "return"
          /\ a_pc' = "done"
       \/ /\ a_pc' = "except"                             \* session.commit() raised
          /\ UNCHANGED <<g_model_url, g_lod_urls, g_written, g_status, a_outcome>>
    /\ UNCHANGED <<g_requests, g_queue, a_job, a_glb, a_refine, q_pc, q_lods, q_uploaded, q_outcome>>
    /\ UNCHANGED GenOthers

\* except Exception as exc: generation_status = "failed", commit (rollback when
\* that fails); raise self.retry(exc=exc, countdown=30); finally session.close()
AiExcept ==
    /\ a_pc = "except"
    /\ \/ g_status' = "failed"
       \/ UNCHANGED g_status                               \* session.rollback()
    /\ IF a_job.retries < AI_MAX_RETRIES
       THEN /\ a_outcome' = "retry"
            /\ g_queue' = Append(g_queue, [a_job EXCEPT !.retries = @ + 1])
       ELSE /\ a_outcome' = "fail"
            /\ UNCHANGED g_queue
    /\ a_pc' = "done"
    /\ UNCHANGED <<g_model_url, g_lod_urls, g_written, g_requests, a_job, a_glb, a_refine,
                   q_pc, q_lods, q_uploaded, q_outcome>>
    /\ UNCHANGED GenOthers

\* generate_3d_model: generate_building and GLBExporter.export_to_bytes
ProcGeometry ==
    /\ q_pc = "geometry"
    /\ q_pc' \in {"lods", "except"}
    /\ UNCHANGED <<g_status, g_model_url, g_lod_urls, g_written, g_requests, g_queue,
                   a_pc, a_job, a_glb, a_refine, a_outcome, q_lods, q_uploaded, q_outcome>>
    /\ UNCHANGED GenOthers

\* LOD variants: levels 1..3 exported in turn; a mesh too simple gives none, an
\* exception keeps the levels exported before it
ProcLods ==
    /\ q_pc = "lods"
    /\ q_lods' \in {{}, {1}, {1, 2}, {1, 2, 3}}
    /\ q_pc' = "upload"
    /\ UNCHANGED <<g_status, g_model_url, g_lod_urls, g_written, g_requests, g_queue,
                   a_pc, a_job, a_glb, a_refine, a_outcome, q_uploaded, q_outcome>>
    /\ UNCHANGED GenOthers

\* the building is loaded; the full model, then each LOD, is uploaded
ProcUpload ==
    /\ q_pc = "upload"
    /\ LET todo == ({0} \cup q_lods) \ q_uploaded
           next == CHOOSE l \in todo : \A o \in todo : l <= o
       IN /\ todo # {}
          /\ \/ q_uploaded' = q_uploaded \cup {next} /\ UNCHANGED q_pc
             \/ q_pc' = "except" /\ UNCHANGED q_uploaded     \* _upload_to_storage raised
    /\ UNCHANGED <<g_status, g_model_url, g_lod_urls, g_written, g_requests, g_queue,
                   a_pc, a_job, a_glb, a_refine, a_outcome, q_lods, q_outcome>>
    /\ UNCHANGED GenOthers

\* building.model_url = model_url; building.lod_urls = lod_urls; session.commit()
ProcWrite ==
    /\ q_pc = "upload"
    /\ q_uploaded = {0} \cup q_lods
    /\ \/ /\ g_model_url' = "procedural"
          /\ g_lod_urls' = q_uploaded
          /\ g_written' = TRUE
          /\ q_outcome' = "return"
          /\ q_pc' = "done"
       \/ /\ q_pc' = "except"                             \* session.commit() raised
          /\ UNCHANGED <<g_model_url, g_lod_urls, g_written, q_outcome>>
    /\ UNCHANGED <<g_status, g_requests, g_queue, a_pc, a_job, a_glb, a_refine, a_outcome,
                   q_lods, q_uploaded>>
    /\ UNCHANGED GenOthers

\* except Exception: session.rollback(); raise
ProcExcept ==
    /\ q_pc = "except"
    /\ q_outcome' = "raise"
    /\ q_pc' = "done"
    /\ UNCHANGED <<g_status, g_model_url, g_lod_urls, g_written, g_requests, g_queue,
                   a_pc, a_job, a_glb, a_refine, a_outcome, q_lods, q_uploaded>>
    /\ UNCHANGED GenOthers

GenNext ==
    \/ GenerateRequest
    \/ AiStart \/ AiCall \/ AiPoll \/ AiRefine \/ AiDownloadUpload \/ AiWrite \/ AiExcept
    \/ ProcGeometry \/ ProcLods \/ ProcUpload \/ ProcWrite \/ ProcExcept

----------------------------------------------------------------------------
(* LODGenerator.generate_lods *)

\* generate_3d_model calls generate_lods for len(combined.faces) > 10
LOD_MIN_FACES == 10

\* trimesh's bounding box is a box mesh of 12 triangles
BOUNDING_BOX_FACES == 12

\* LOD_CONFIGS[level]["face_ratio"], in hundredths
FaceRatio(level) ==
    CASE level = 0 -> 100
      [] level = 1 -> 25
      [] level = 2 -> 5
      [] OTHER -> 1

LodLevels == 0..3

\* max(4, int(original_faces * config["face_ratio"]))
TargetFaces(original_faces, level) ==
    Max(4, (original_faces * FaceRatio(level)) \div 100)

\* what mesh.simplify_quadric_decimation(target_faces) may return: a mesh with
\* no more faces than the input, the target reached or not
Decimated(original_faces, target_faces) == 0..original_faces

LodIdle ==
    /\ l_pc = "idle"
    /\ l_faces = 0
    /\ l_level = 0
    /\ l_lods = <<>>

\* lods = {0: mesh.copy()}
LodInit ==
    /\ l_pc = "levels"
    /\ l_faces \in (LOD_MIN_FACES + 1)..MaxFaces
    /\ l_level = 1
    /\ l_lods = (0 :> l_faces)

\* one level of the loop: the decimated mesh, or the bounding box when the
\* decimation raises
LodLevel ==
    /\ l_pc = "levels"
    /\ l_level \in LodLevels
    /\ \/ \E f \in Decimated(l_faces, TargetFaces(l_faces, l_level)) :
             l_lods' = (l_level :> f) @@ l_lods
       \/ l_lods' = (l_level :> BOUNDING_BOX_FACES) @@ l_lods
    /\ l_level' = l_level + 1
    /\ l_pc' = IF l_level + 1 \in LodLevels THEN "levels" ELSE "done"
    /\ UNCHANGED l_faces
    /\ UNCHANGED LodOthers

LodNext == LodLevel

----------------------------------------------------------------------------
(* BuildingGenerator._generate_balconies *)

\* footprints: a square, a rectangle, an open triangle, and a single point
\* (no edge at all)
WideRectangle == <<<<0, 0>>, <<30, 0>>, <<30, 10>>, <<0, 10>>, <<0, 0>>>>
SinglePoint == <<<<5, 5>>>>
BalconyFootprints == {ClosedSquare, WideRectangle, OpenTriangle, SinglePoint}

\* np.linalg.norm(pts[i + 1] - pts[i]), squared
EdgeLenSq(pts, i) ==
    (pts[i + 1][1] - pts[i][1]) * (pts[i + 1][1] - pts[i][1])
    + (pts[i + 1][2] - pts[i][2]) * (pts[i + 1][2] - pts[i][2])

\* the loop over the edges: the first edge of the greatest length (edges are
\* numbered from 1 here), [idx, len] with idx = 1 and len = 0 when none is longer
RECURSIVE LongestEdge(_, _, _)
LongestEdge(pts, i, best) ==
    IF i > Len(pts) - 1 THEN best
    ELSE LongestEdge(pts, i + 1,
                     IF EdgeLenSq(pts, i) > best.len
                     THEN [idx |-> i, len |-> EdgeLenSq(pts, i)]
                     ELSE best)

\* the floors that get a balcony, ground floor included
BalconyFloors_WithGround(floors) == 0..(floors - 1)

\* range(1, floors)
BalconyFloors(floors) == 1..(floors - 1)

BalconyIdle ==
    /\ b_pc = "idle"
    /\ b_footprint = <<>>
    /\ b_floors = 1
    /\ b_floor_height = 3
    /\ b_best = [idx |-> 1, len |-> 0]
    /\ b_floor_idx = 0
    /\ b_out = <<>>

\* balconies = []
BalconyInit ==
    /\ b_pc = "edge"
    /\ b_footprint \in BalconyFootprints
    /\ b_floors \in 1..MaxFloors
    /\ b_floor_height \in {3, 4}
    /\ b_best = [idx |-> 1, len |-> 0]
    /\ b_floor_idx = 0
    /\ b_out = <<>>

\* the longest edge and its direction; pts[best_idx + 1] on a footprint with a
\* single point raises IndexError, which ends the call with no balcony
BalconyEdge ==
    /\ b_pc = "edge"
    /\ b_best' = LongestEdge(b_footprint, 1, [idx |-> 1, len |-> 0])
    /\ IF Len(b_footprint) < 2
       THEN b_pc' = "done" /\ UNCHANGED b_floor_idx
       ELSE IF BalconyFloors(b_floors) = {}
       THEN b_pc' = "done" /\ UNCHANGED b_floor_idx
       ELSE /\ b_pc' = "floors"
            /\ b_floor_idx' = CHOOSE f \in BalconyFloors(b_floors) :
                                 \A o \in BalconyFloors(b_floors) : f <= o
    /\ UNCHANGED <<b_footprint, b_floors, b_floor_height, b_out>>
    /\ UNCHANGED BalconyOthers

\* one floor of the loop: the slab, then the railing
BalconyFloor ==
    /\ b_pc = "floors"
    /\ b_out' = b_out \o
          <<[kind |-> "slab", floor |-> b_floor_idx, edge |-> b_best.idx,
             z |-> b_floor_idx * b_floor_height],
            [kind |-> "railing", floor |-> b_floor_idx, edge |-> b_best.idx,
             z |-> b_floor_idx * b_floor_height]>>
    /\ IF b_floor_idx + 1 \in BalconyFloors(b_floors)
       THEN b_floor_idx' = b_floor_idx + 1 /\ UNCHANGED b_pc
       ELSE b_pc' = "done" /\ UNCHANGED b_floor_idx
    /\ UNCHANGED <<b_footprint, b_floors, b_floor_height, b_best>>
    /\ UNCHANGED BalconyOthers

BalconyNext == BalconyEdge \/ BalconyFloor

----------------------------------------------------------------------------
(* BuildingGenerator._gabled_roof *)

\* the closed rectangle with corner (x0, y0), w along x and d along y
Rectangle(x0, y0, w, d) ==
    <<<<x0, y0>>, <<x0 + w, y0>>, <<x0 + w, y0 + d>>, <<x0, y0 + d>>, <<x0, y0>>>>

RightTriangle(w, d) == <<<<0, 0>>, <<w, 0>>, <<0, d>>, <<0, 0>>>>

\* an array without rows: footprint[:, :2] raises IndexError
NoPoints == <<>>

RoofFootprints ==
    {Rectangle(x0, y0, w, d) : x0 \in {0, 2}, y0 \in {0, 1}, w \in 1..MaxExtent, d \in 1..MaxExtent}
    \cup {RightTriangle(w, d) : w \in 1..MaxExtent, d \in 1..MaxExtent}
    \cup {NoPoints}

\* footprint[:, :2].min(axis=0)
ColumnMin(pts) ==
    LET col(c) == {pts[i][c] : i \in 1..Len(pts)}
        least(S) == CHOOSE m \in S : \A x \in S : m <= x
    IN <<least(col(1)), least(col(2))>>

\* footprint[:, :2].max(axis=0)
ColumnMax(pts) ==
    LET col(c) == {pts[i][c] : i \in 1..Len(pts)}
        most(S) == CHOOSE m \in S : \A x \in S : m >= x
    IN <<most(col(1)), most(col(2))>>

NoMesh == [ok |-> FALSE, vertices |-> <<>>, faces |-> <<>>]

\* the six vertices: the four corners at base_height, then the two ridge ends
GabledVertices(min_pt, max_pt, base_height) ==
    LET center_x == Rat(min_pt[1] + max_pt[1], 2)
        width == max_pt[1] - min_pt[1]
        ridge_height == Rat(3 * width, 10)
        top == Rat(10 * base_height + 3 * width, 10)
        base == Num(base_height)
    IN <<[x |-> Num(min_pt[1]), y |-> Num(min_pt[2]), z |-> base],
         [x |-> Num(max_pt[1]), y |-> Num(min_pt[2]), z |-> base],
         [x |-> Num(max_pt[1]), y |-> Num(max_pt[2]), z |-> base],
         [x |-> Num(min_pt[1]), y |-> Num(max_pt[2]), z |-> base],
         [x |-> center_x, y |-> Num(min_pt[2]), z |-> top],
         [x |-> center_x, y |-> Num(max_pt[2]), z |-> top]>>

\* faces, as indices into the vertices counted from 0
GabledFaces ==
    <<<<0, 1, 4>>, <<1, 2, 5>>, <<1, 5, 4>>, <<2, 3, 5>>, <<3, 0, 4>>, <<3, 4, 5>>>>

RoofIdle ==
    /\ r_pc = "idle"
    /\ r_footprint = NoPoints
    /\ r_base = 0
    /\ r_min = <<0, 0>>
    /\ r_max = <<0, 0>>
    /\ r_out = NoMesh

RoofInit ==
    /\ r_pc = "bbox"
    /\ r_footprint \in RoofFootprints
    /\ r_base \in {3, 10}
    /\ r_min = <<0, 0>>
    /\ r_max = <<0, 0>>
    /\ r_out = NoMesh

\* min_pt, max_pt; an exception ends the call with None
RoofBounds ==
    /\ r_pc = "bbox"
    /\ IF r_footprint = NoPoints
       THEN r_pc' = "done" /\ UNCHANGED <<r_min, r_max>>
       ELSE /\ r_min' = ColumnMin(r_footprint)
            /\ r_max' = ColumnMax(r_footprint)
            /\ r_pc' = "mesh"
    /\ UNCHANGED <<r_footprint, r_base, r_out>>
    /\ UNCHANGED RoofOthers

\* vertices, faces, trimesh.Trimesh(vertices=vertices, faces=faces)
RoofMesh ==
    /\ r_pc = "mesh"
    /\ r_out' = [ok |-> TRUE, vertices |-> GabledVertices(r_min, r_max, r_base),
                 faces |-> GabledFaces]
    /\ r_pc' = "done"
    /\ UNCHANGED <<r_footprint, r_base, r_min, r_max>>
    /\ UNCHANGED RoofOthers

RoofNext == RoofBounds \/ RoofMesh

----------------------------------------------------------------------------
(* BuildingGenerator.generate_building *)

\* a polygon given without the repeated closing vertex
Unclosed(closed) == SubSeq(closed, 1, Len(closed) - 1)

\* sides of 1 m (no window), of 2 and 3 m (one window) and of 7 m (two windows)
BuildingFootprints ==
    LET closed == {Rectangle(0, 0, w, d) : w \in {1, 7}, d \in 1..MaxExtent}
                  \cup {RightTriangle(7, d) : d \in 1..MaxExtent}
    IN closed \cup {Unclosed(c) : c \in closed}

\* the polygon extruded: fewer than 3 points give no body; an unclosed footprint
\* is closed in the local variable of _extrude_footprint
ExtrudedPolygon(footprint) ==
    IF Len(footprint) < 3 THEN <<>>
    ELSE IF footprint[1] # footprint[Len(footprint)]
         THEN Append(footprint, footprint[1])
         ELSE footprint

\* edge_len < 2.0
TooShortForWindows(len_sq) == len_sq < 4

\* edge_len < 0.5
TooShortForCornice(len_sq) == 4 * len_sq < 1

\* max(1, int((edge_len - 1.0) / spacing)) with spacing 3.0, for edge_len >= 2:
\* int((L - 1) / 3) is the greatest k with (3k + 1)^2 <= L^2
WindowsOnEdge(len_sq) ==
    LET fits == {k \in 0..len_sq : (3 * k + 1) * (3 * k + 1) <= len_sq}
        most == CHOOSE k \in fits : \A o \in fits : k >= o
    IN Max(1, most)

\* the windows of edge i (counted from 0): for each floor, for each position
EdgeWindows(i, floors, n_windows) ==
    [k \in 1..(floors * n_windows) |->
        [edge |-> i, floor |-> (k - 1) \div n_windows, win |-> (k - 1) % n_windows]]

\* geometry names "<prefix>_<first>" .. "<prefix>_<last>"
Named(prefix, first, last) ==
    [k \in 1..(last - first + 1) |-> <<prefix, first + k - 1>>]

BuildingIdle ==
    /\ f_pc = "idle"
    /\ f_footprint = <<>>
    /\ f_floors = 1
    /\ f_roof_type = "flat"
    /\ f_features = {}
    /\ f_body = <<>>
    /\ f_i = 0
    /\ f_windows = <<>>
    /\ f_cornice = <<>>
    /\ f_scene = <<>>

\* scene = trimesh.Scene(); the values read from building_data
BuildingInit ==
    /\ f_pc = "body"
    /\ f_footprint \in BuildingFootprints
    /\ f_floors \in 1..2
    /\ f_roof_type \in {"flat", "gabled"}
    /\ f_features \in SUBSET {"windows", "balconies"}
    /\ f_body = <<>>
    /\ f_i = 0
    /\ f_windows = <<>>
    /\ f_cornice = <<>>
    /\ f_scene = <<>>

\* the body volume, the floor plates and the roof
BuildingBody ==
    /\ f_pc = "body"
    /\ f_body' = ExtrudedPolygon(f_footprint)
    /\ f_scene' = (IF ExtrudedPolygon(f_footprint) # <<>>
                   THEN <<<<"building_body", 0>>>> ELSE <<>>)
                  \o Named("floor", 1, f_floors - 1)
                  \o (IF f_roof_type = "gabled" THEN <<<<"roof", 0>>>> ELSE <<>>)
    /\ f_i' = 0
    /\ f_pc' = IF "windows" \in f_features THEN "windows" ELSE "door"
    /\ UNCHANGED <<f_footprint, f_floors, f_roof_type, f_features, f_windows, f_cornice>>
    /\ UNCHANGED BuildingOthers

\* _generate_windows: one iteration of "for i in range(len(pts) - 1)", and after
\* the last one the windows are added to the scene
BuildingWindows ==
    /\ f_pc = "windows"
    /\ IF f_i < Len(f_footprint) - 1
       THEN /\ f_windows' =
                  IF TooShortForWindows(EdgeLenSq(f_footprint, f_i + 1)) THEN f_windows
                  ELSE f_windows \o
                       EdgeWindows(f_i, f_floors,
                                   WindowsOnEdge(EdgeLenSq(f_footprint, f_i + 1)))
            /\ f_i' = f_i + 1
            /\ UNCHANGED <<f_pc, f_scene>>
       ELSE /\ f_scene' = f_scene \o Named("window", 0, Len(f_windows) - 1)
            /\ f_pc' = "door"
            /\ UNCHANGED <<f_i, f_windows>>
    /\ UNCHANGED <<f_footprint, f_floors, f_roof_type, f_features, f_body, f_cornice>>
    /\ UNCHANGED BuildingOthers

\* the front door, and the balconies of the upper floors when requested
BuildingDoorBalconies ==
    /\ f_pc = "door"
    /\ f_scene' = f_scene \o <<<<"door", 0>>>>
                  \o (IF "balconies" \in f_features /\ f_floors > 1
                      THEN Named("balcony", 0, 2 * Cardinality(BalconyFloors(f_floors)) - 1)
                      ELSE <<>>)
    /\ f_i' = 0
    /\ f_pc' = "cornice"
    /\ UNCHANGED <<f_footprint, f_floors, f_roof_type, f_features, f_body, f_windows,
                   f_cornice>>
    /\ UNCHANGED BuildingOthers

\* _generate_cornice: one iteration of "for i in range(len(pts) - 1)", and after
\* the last one the concatenated cornice is added to the scene
BuildingCornice ==
    /\ f_pc = "cornice"
    /\ IF f_i < Len(f_footprint) - 1
       THEN /\ f_cornice' =
                  IF TooShortForCornice(EdgeLenSq(f_footprint, f_i + 1)) THEN f_cornice
                  ELSE Append(f_cornice, f_i)
            /\ f_i' = f_i + 1
            /\ UNCHANGED <<f_pc, f_scene>>
       ELSE /\ f_scene' = IF f_cornice # <<>> THEN Append(f_scene, <<"cornice", 0>>)
                          ELSE f_scene
            /\ f_pc' = "done"
            /\ UNCHANGED <<f_i, f_cornice>>
    /\ UNCHANGED <<f_footprint, f_floors, f_roof_type, f_features, f_body, f_windows>>
    /\ UNCHANGED BuildingOthers

BuildingNext ==
    BuildingBody \/ BuildingWindows \/ BuildingDoorBalconies \/ BuildingCornice

----------------------------------------------------------------------------
(* _upload_to_storage, called by two jobs at a time *)

UploadJobs == {1, 2}

UploadIdle ==
    /\ u_pc = [j \in UploadJobs |-> "idle"]
    /\ u_todo = [j \in UploadJobs |-> 0]
    /\ u_bucket = FALSE
    /\ u_objects = {}
    /\ u_urls = [j \in UploadJobs |-> {}]
    /\ u_raised = [j \in UploadJobs |-> FALSE]

\* two jobs about to upload their model and LOD files; the bucket may exist
UploadInit ==
    /\ u_pc = [j \in UploadJobs |-> "head"]
    /\ u_todo \in [UploadJobs -> 1..MaxUploads]
    /\ u_bucket \in BOOLEAN
    /\ u_objects = {}
    /\ u_urls = [j \in UploadJobs |-> {}]
    /\ u_raised = [j \in UploadJobs |-> FALSE]

\* s3.head_bucket(Bucket=...): raises when the bucket does not exist
UploadHead(j) ==
    /\ u_pc[j] = "head"
    /\ u_pc' = [u_pc EXCEPT ![j] = IF u_bucket THEN "put" ELSE "create"]
    /\ UNCHANGED <<u_todo, u_bucket, u_objects, u_urls, u_raised>>
    /\ UNCHANGED UploadOthers

\* except Exception: s3.create_bucket(Bucket=...).  For a bucket that exists by
\* now the service answers with an error (BucketAlreadyOwnedByYou) or accepts
\* the request, depending on the service; the error leaves _upload_to_storage
\* and ends the job
UploadCreate(j) ==
    /\ u_pc[j] = "create"
    /\ IF ~u_bucket
       THEN /\ u_bucket' = TRUE
            /\ u_pc' = [u_pc EXCEPT ![j] = "put"]
            /\ UNCHANGED u_raised
       ELSE /\ UNCHANGED u_bucket
            /\ \/ /\ u_raised' = [u_raised EXCEPT ![j] = TRUE]
                  /\ u_pc' = [u_pc EXCEPT ![j] = "done"]
               \/ /\ u_pc' = [u_pc EXCEPT ![j] = "put"]
                  /\ UNCHANGED u_raised
    /\ UNCHANGED <<u_todo, u_objects, u_urls>>
    /\ UNCHANGED UploadOthers

\* s3.put_object(...); return the URL; the job goes on to its next upload
UploadPut(j) ==
    /\ u_pc[j] = "put"
    /\ u_objects' = u_objects \cup {<<j, u_todo[j]>>}
    /\ u_urls' = [u_urls EXCEPT ![j] = @ \cup {<<j, u_todo[j]>>}]
    /\ u_todo' = [u_todo EXCEPT ![j] = @ - 1]
    /\ u_pc' = [u_pc EXCEPT ![j] = IF u_todo[j] > 1 THEN "head" ELSE "done"]
    /\ UNCHANGED <<u_bucket, u_raised>>
    /\ UNCHANGED UploadOthers

UploadNext == \E j \in UploadJobs : UploadHead(j) \/ UploadCreate(j) \/ UploadPut(j)

----------------------------------------------------------------------------
(* Specifications *)

InitNorm == NormInit /\ PdfIdle /\ DocIdle /\ PollIdle /\ GenIdle /\ LodIdle /\ BalconyIdle /\ RoofIdle /\ BuildingIdle /\ UploadIdle

SpecNorm == InitNorm /\ [][NormNext]_vars

InitPdf == PdfInit /\ NormIdle /\ DocIdle /\ PollIdle /\ GenIdle /\ LodIdle /\ BalconyIdle /\ RoofIdle /\ BuildingIdle /\ UploadIdle

Init == DocInit /\ NormIdle /\ PdfIdle /\ PollIdle /\ GenIdle /\ LodIdle /\ BalconyIdle /\ RoofIdle /\ BuildingIdle /\ UploadIdle

Next == DocNext

Spec == Init /\ [][Next]_vars

SpecPdf == InitPdf /\ [][PdfNext]_vars

InitPoll == PollInit /\ NormIdle /\ PdfIdle /\ DocIdle /\ GenIdle /\ LodIdle /\ BalconyIdle /\ RoofIdle /\ BuildingIdle /\ UploadIdle

InitGen == GenInit /\ NormIdle /\ PdfIdle /\ DocIdle /\ PollIdle /\ LodIdle /\ BalconyIdle /\ RoofIdle /\ BuildingIdle /\ UploadIdle

SpecGen == InitGen /\ [][GenNext]_vars

InitLod == LodInit /\ NormIdle /\ PdfIdle /\ DocIdle /\ PollIdle /\ GenIdle /\ BalconyIdle /\ RoofIdle /\ BuildingIdle /\ UploadIdle

SpecLod == InitLod /\ [][LodNext]_vars

InitBalcony ==
    BalconyInit /\ NormIdle /\ PdfIdle /\ DocIdle /\ PollIdle /\ GenIdle /\ LodIdle /\ RoofIdle
    /\ BuildingIdle /\ UploadIdle

SpecBalcony == InitBalcony /\ [][BalconyNext]_vars

InitRoof ==
    RoofInit /\ NormIdle /\ PdfIdle /\ DocIdle /\ PollIdle /\ GenIdle /\ LodIdle /\ BalconyIdle
    /\ BuildingIdle /\ UploadIdle

SpecRoof == InitRoof /\ [][RoofNext]_vars

InitBuilding ==
    BuildingInit /\ NormIdle /\ PdfIdle /\ DocIdle /\ PollIdle /\ GenIdle /\ LodIdle /\ BalconyIdle
    /\ RoofIdle /\ UploadIdle

SpecBuilding == InitBuilding /\ [][BuildingNext]_vars

InitUpload ==
    UploadInit /\ NormIdle /\ PdfIdle /\ DocIdle /\ PollIdle /\ GenIdle /\ LodIdle /\ BalconyIdle
    /\ RoofIdle /\ BuildingIdle

SpecUpload == InitUpload /\ [][UploadNext]_vars

\* the event loop runs the coroutine whenever it can take a step
SpecPoll == InitPoll /\ [][PollNext]_vars /\ WF_vars(PollNext)

\* C8: when extract_pdf has returned, normally or through its except clause,
\* result.images and result.page_classifications have the same length and
\* position k of both refers to the same source page.
C8_ParallelLists ==
    p_pc = "done" =>
        /\ Len(p_images) = Len(p_cls)
        /\ \A k \in 1..Len(p_images) : p_cls[k].page = p_images[k]

\* an exception on the second page, after the first page was appended to both
C8_Witness ==
    /\ p_pc = "done"
    /\ p_errors # <<>>
    /\ p_confidence = 0
    /\ Len(p_images) = 1
    /\ p_text = 2

\* the sort was reached: every page was read and result.confidence set
p_success == p_pc = "done" /\ p_confidence = FormatConfidence("extract_pdf")

\* C9: after a successful extract_pdf the pages are a permutation of the source
\* pages in ascending type priority (floor_plan < elevation < schedule < text),
\* within a type in descending confidence, and pages equal in both keep their
\* original order.
C9_SortedPages ==
    p_success =>
        /\ Len(p_images) = p_count
        /\ {p_images[k] : k \in 1..Len(p_images)} = 0..(p_count - 1)
        /\ \A k, l \in 1..Len(p_cls) :
              k < l =>
                LET a == p_cls[k]
                    b == p_cls[l]
                    pr(c) == CASE c.type = "floor_plan" -> 0 [] c.type = "elevation" -> 1
                               [] c.type = "schedule" -> 2 [] c.type = "text" -> 3
                IN /\ pr(a) <= pr(b)
                   /\ a.type = b.type => a.confidence >= b.confidence
                   /\ (a.type = b.type /\ a.confidence = b.confidence) => a.page < b.page

\* three pages: a text page first, then two floor plans of rising confidence
C9_Witness ==
    /\ p_success
    /\ p_count = 3
    /\ p_images = <<2, 1, 0>>

----------------------------------------------------------------------------
(* Claims about process_document *)

\* C10: for a document whose declared file type has no registered extractor,
\* process_document creates no Building record, dispatches no generate_3d_model
\* job and does not mark the document completed.
C10_UnsupportedTypeNoOutput ==
    d_type \notin RegisteredTypes =>
        /\ d_pending = {}
        /\ d_buildings = {}
        /\ d_jobs = {}
        /\ d_status # "completed"

\* C13: a job-level exception in process_document leads to at most
\* max_retries = 3 re-executions, and once they are used up the job has failed
\* for good with the document's processing_status "failed", not "processing".
C13_FailedWhenExhausted ==
    /\ d_retries <= MAX_RETRIES
    /\ (d_pc = "done" /\ d_outcome = "fail") =>
           (d_retries = MAX_RETRIES /\ d_status = "failed")

\* C14: when an execution of process_document has ended (returned, failed for
\* good, or handed over to a retry) the temporary file it created is deleted.
C14_TempFileDeleted ==
    d_pc \in {"done", "retrying"} => d_tmp # "exists"

\* the step in which an interpreter call for page d_idx raised
d_pageCallRaised ==
    /\ d_pc = "interpret"
    /\ d_idx < Len(d_ext.images)
    /\ Len(d_calls') > Len(d_calls)
    /\ d_calls'[Len(d_calls')].raised

\* C18: the pages of one job are interpreted one after another in the reordered
\* page order, none is passed over, and an exception raised by the interpreter
\* for a page is recovered locally: the page adds no building and the loop goes
\* on with the next page, or to normalization after the last one.
C18_PageFailureIsLocal ==
    /\ [](\A i, j \in 1..Len(d_calls) : i < j => d_calls[i].page <= d_calls[j].page)
    /\ [](\A p \in 0..(d_idx - 1) :
             PageType(d_ext, p) \notin {"text", "schedule"} =>
                 \E c \in 1..Len(d_calls) : d_calls[c].page = p)
    /\ [][d_pageCallRaised =>
             /\ d_all' = d_all
             /\ d_idx' = d_idx + 1
             /\ d_pc' = IF d_idx' < Len(d_ext.images) THEN "interpret" ELSE "normalize"]_vars

\* the call for the first page raised, the second page was interpreted and gave
\* a building, and the job completed
C18_Witness ==
    /\ d_pc = "done"
    /\ d_outcome = "return"
    /\ d_status = "completed"
    /\ Len(d_calls) = 2
    /\ d_calls[1].page = 0 /\ d_calls[1].raised
    /\ d_calls[2].page = 1 /\ ~d_calls[2].raised
    /\ Len(d_all) = 1
    /\ d_buildings # {}

----------------------------------------------------------------------------
(* Claims about the generation jobs *)

StatusTransitions ==
    {<<"idle", "generating">>, <<"generating", "completed">>, <<"generating", "failed">>}

\* C15: the committed generation_status of a building only changes along
\* idle -> generating -> completed or idle -> generating -> failed, whatever
\* generate requests, generate_3d_model_ai executions and retries happen.
C15_StatusTransitions ==
    [][g_status' # g_status => <<g_status, g_status'>> \in StatusTransitions]_vars

g_urls == <<g_model_url, g_lod_urls, g_written>>

\* the step is the final commit of a generate_3d_model_ai execution that holds
\* an uploaded model
a_writes ==
    /\ a_pc = "write"
    /\ a_glb
    /\ a_outcome' = "return"
    /\ g_model_url' = "ai"
    /\ g_lod_urls' = {0}

\* the step is the final commit of a generate_3d_model job that uploaded the
\* full model and every LOD it writes
q_writes ==
    /\ q_pc = "upload"
    /\ 0 \in q_uploaded
    /\ q_outcome' = "return"
    /\ g_model_url' = "procedural"
    /\ g_lod_urls' = q_uploaded

\* C16: model_url and lod_urls of the building record change only in the final
\* commit of a generation job that produced and uploaded its model; a step in
\* which a job fails leaves both as they were.
C16_UrlsOnlyOnSuccess ==
    [][/\ g_urls' # g_urls => (a_writes \/ q_writes)
       /\ (\/ a_pc # "except" /\ a_pc' = "except"
           \/ a_pc = "except" /\ a_outcome' \in {"retry", "fail"}
           \/ q_pc # "except" /\ q_pc' = "except"
           \/ q_pc = "except" /\ q_outcome' = "raise") => g_urls' = g_urls]_vars

\* the procedural job wrote its four levels, and a later generate_3d_model_ai
\* job failed for good without touching them
C16_Witness ==
    /\ g_model_url = "procedural"
    /\ g_lod_urls = {0, 1, 2, 3}
    /\ a_pc = "done"
    /\ a_outcome = "fail"
    /\ q_outcome = "return"

\* C17: once the generate_3d_model job of the building has ended, the
\* committed generation_status is "completed" if it returned and "failed" if
\* it raised.
C17_StatusTellsOutcome ==
    q_pc = "done" =>
        /\ q_outcome = "return" => g_status = "completed"
        /\ q_outcome = "raise" => g_status = "failed"

----------------------------------------------------------------------------
(* Claims about poll_until_done *)

\* ceil(T / P) for P > 0, and 0 for T <= 0
CeilDiv(T, P) == IF T <= 0 THEN 0 ELSE (T + P - 1) \div P

m_fetches == Cardinality({k \in 1..Len(m_events) : m_events[k].e = "fetch"})

\* a reported status that is SUCCEEDED, FAILED or EXPIRED in some letter case
IsFailureStatus(st) == st \in {"FAILED", "failed", "Expired"}
IsTerminalStatus(st) == st \in {"SUCCEEDED", "succeeded"} \/ IsFailureStatus(st)

m_noTerminalReported ==
    \A k \in 1..Len(m_events) :
        m_events[k].e = "fetch" => ~IsTerminalStatus(m_events[k].status)

m_everyFetchAnswered ==
    \A k \in 1..Len(m_events) : m_events[k] # FetchRaised

m_pollBound ==
    /\ m_fetches <= CeilDiv(m_timeout, m_interval)
    /\ (m_pc = "done" /\ m_timeout <= 0) =>
           (m_outcome = "TimeoutError" /\ m_events = <<>>)

\* C11 as stated: at most ceil(T/P) status fetches, and a call none of whose
\* fetches reported SUCCEEDED, FAILED or EXPIRED ends in TimeoutError.
C11_PollCeiling ==
    /\ m_pollBound
    /\ (m_pc = "done" /\ m_noTerminalReported) => m_outcome = "TimeoutError"

\* C11, amended: poll_until_done always terminates, performs at most ceil(T/P)
\* status fetches (none when T <= 0), and ends in TimeoutError when every fetch
\* was answered and no answer carried SUCCEEDED, FAILED or EXPIRED; a fetch
\* that itself raises ends the call with that exception.
C11_PollTerminates ==
    /\ [](/\ m_pollBound
          /\ (m_pc = "done" /\ m_noTerminalReported /\ m_everyFetchAnswered)
                 => m_outcome = "TimeoutError"
          /\ (m_pc = "done" /\ ~m_everyFetchAnswered) => m_outcome = "FetchError")
    /\ <>(m_pc = "done")

\* timeout 3, interval 2: two fetches, both not terminal, then TimeoutError
C11_Witness ==
    /\ m_pc = "done"
    /\ m_timeout = 3
    /\ m_interval = 2
    /\ m_fetches = 2
    /\ m_outcome = "TimeoutError"

\* C12: the first status fetch that reports FAILED or EXPIRED, in any letter
\* case, is the last thing the call does (no fetch and no sleep follows) and
\* the call raises RuntimeError, which is not the TimeoutError of the ceiling.
C12_FailsImmediately ==
    \A k \in 1..Len(m_events) :
        (m_events[k].e = "fetch" /\ IsFailureStatus(m_events[k].status)) =>
            /\ k = Len(m_events)
            /\ m_pc = "done"
            /\ m_outcome = "RuntimeError"
            /\ m_outcome # "TimeoutError"

\* a lower-case "failed" on the second fetch
C12_Witness ==
    /\ m_pc = "done"
    /\ Len(m_events) = 3
    /\ m_events[3] = FetchEvent("failed")
    /\ m_outcome = "RuntimeError"

----------------------------------------------------------------------------
(* Claims about the geometry generator *)

\* C19: for a mesh of N > 10 faces, whatever each level's decimation does
\* (success, or failure replaced by the bounding box), generate_lods returns
\* exactly the levels 0..3, level 0 with the N faces of the input and each of
\* the levels 1..3 with at most N faces.
C19_LodFaceCounts ==
    l_pc = "done" =>
        /\ DOMAIN l_lods = LodLevels
        /\ l_lods[0] = l_faces
        /\ \A level \in 1..3 : l_lods[level] <= l_faces

\* C20: for a footprint whose longest edge is not degenerate and a floor count
\* F >= 1, _generate_balconies returns exactly 2 * (F - 1) meshes: for each
\* floor 1..F-1 in turn a slab and then a railing, and none for the ground floor.
C20_BalconyCount ==
    (b_pc = "done" /\ b_best.len > 0) =>
        /\ Len(b_out) = 2 * (b_floors - 1)
        /\ \A f \in 1..(b_floors - 1) :
              /\ b_out[2 * f - 1].kind = "slab" /\ b_out[2 * f - 1].floor = f
              /\ b_out[2 * f].kind = "railing" /\ b_out[2 * f].floor = f

\* three floors on the rectangle: four meshes on its first (longest) edge
C20_Witness ==
    /\ b_pc = "done"
    /\ b_footprint = WideRectangle
    /\ b_floors = 3
    /\ b_best = [idx |-> 1, len |-> 900]
    /\ Len(b_out) = 4

----------------------------------------------------------------------------
(* Claims about the extractors *)

\* the extractors of the registry
Extractors == {Extractor(t) : t \in RegisteredTypes}

\* C21: the confidence an extractor sets on success ranks CAD and GeoJSON
\* strictly above every other format (PDF, spreadsheet, raster image) and
\* raster image strictly below every other format.
C21_FormatRanking ==
    LET vector == {"extract_cad", "extract_geojson"}
        mine == Extractor(d_type)
    IN  d_ext.confidence > 0 =>
            /\ mine \in vector =>
                  \A o \in Extractors \ vector : d_ext.confidence > FormatConfidence(o)
            /\ mine = "extract_image" =>
                  \A o \in Extractors \ {mine} : d_ext.confidence < FormatConfidence(o)

----------------------------------------------------------------------------
(* Claims about the floor-plan record on its two ways into the normalizer *)

\* C22: a floor-plan-style record (building_dimensions W x D, total height H,
\* confidence >= 0.3, no extracted coordinates) is normalized to the same
\* building whether it is the top-level interpretation or was wrapped by
\* process_document into the merged buildings list: the footprint is the
\* W x D rectangle and the height is H.
C22_WrappedSameAsTopLevel ==
    LET record == AiFloorPlan(7)
        direct == NormalizeExtractionData(<<>>, record)
    IN  (/\ d_pc = "create" /\ d_k = 0
         /\ d_ext.coords = <<>>
         /\ d_all = <<WrapRecord(record, record.confidence)>>) =>
            /\ ~direct.raised
            /\ Len(d_norm) = 1
            /\ d_norm[1].footprint = direct.value[1].footprint
            /\ d_norm[1].height_meters = direct.value[1].height_meters
            /\ d_norm[1].footprint =
                   SynthFootprint(0, record.dims.width_meters.n, record.dims.depth_meters)
            /\ d_norm[1].height_meters = record.total_height_meters

----------------------------------------------------------------------------
(* Claims about the roof and the facade *)

\* the ridge: the edge between the two raised vertices
r_ridge == <<r_out.vertices[5], r_out.vertices[6]>>

r_ridgeAlongX == r_ridge[1].y = r_ridge[2].y /\ r_ridge[1].x # r_ridge[2].x

r_ridgeAlongY == r_ridge[1].x = r_ridge[2].x /\ r_ridge[1].y # r_ridge[2].y

\* C23: the gabled roof's ridge runs along the shorter bounding-box axis of
\* the footprint: parallel to the x axis when the x-extent is the smaller one,
\* parallel to the y axis when the y-extent is the smaller one.
C23_RidgeAlongShorterAxis ==
    LET x_extent == r_max[1] - r_min[1]
        y_extent == r_max[2] - r_min[2]
    IN  (r_pc = "done" /\ r_out.ok) =>
            /\ x_extent < y_extent => r_ridgeAlongX
            /\ y_extent < x_extent => r_ridgeAlongY

\* the edges of the closed polygon of the footprint, counted from 0
f_closed == ExtrudedPolygon(f_footprint)

\* C24: generate_building closes an unclosed footprint before every step: for
\* a footprint of n distinct vertices given without the closing vertex,
\* windows are placed on every one of the n edges of the closed polygon that
\* is >= 2 m long (max(1, floor((L - 1) / 3)) per floor per edge) and the
\* cornice covers every one of the n edges >= 0.5 m, the closing edge
\* included, exactly as for the same footprint given closed.
C24_ClosedBeforeEveryStep ==
    f_pc = "done" =>
        \A e \in 0..(Len(f_closed) - 2) :
            LET len_sq == EdgeLenSq(f_closed, e + 1)
                on(fl) == {k \in 1..Len(f_windows) :
                              f_windows[k].edge = e /\ f_windows[k].floor = fl}
            IN /\ ("windows" \in f_features /\ len_sq >= 4) =>
                     \A fl \in 0..(f_floors - 1) :
                         Cardinality(on(fl)) = WindowsOnEdge(len_sq)
               /\ 4 * len_sq >= 1 => \E k \in 1..Len(f_cornice) : f_cornice[k] = e

----------------------------------------------------------------------------
(* Claims about process_document and its generation jobs *)

\* C25: whenever a generate_3d_model job dispatched by process_document starts
\* (on another worker, at any point after the dispatch), the Building record it
\* was dispatched for is committed and visible to it; every dispatched job has
\* a persisted building record, also when process_document fails after the
\* dispatch.  A job in the queue may start in any state, so this is: at every
\* point, every dispatched id is a committed row.
C25_JobFindsBuilding ==
    \A id \in d_jobs : id \in d_buildings

\* the step in which a page's interpretation ended with an elevation record
d_elevationMerged ==
    /\ Len(d_calls') > Len(d_calls)
    /\ d_calls'[Len(d_calls')].fn # "text"
    /\ d_calls'[Len(d_calls')].result = "elevation"

\* every drawing page was interpreted and every call gave an elevation record
d_onlyElevations ==
    /\ d_pc \in {"normalize", "create"}
    /\ d_calls # <<>>
    /\ \A c \in 1..Len(d_calls) :
          d_calls[c].fn # "text" /\ d_calls[c].result = "elevation"

\* C26: the result of interpreting an elevation page (total_height_meters,
\* floor_count, roof_type, neither a buildings list nor building_dimensions)
\* adds no entry to the merged building list; when every drawing page of a
\* document is an elevation, the normalizer receives the empty interpretation
\* and falls back to the coordinates or the default building.
C26_ElevationAddsNothing ==
    /\ [][d_elevationMerged => d_all' = d_all]_vars
    /\ [](d_onlyElevations =>
            /\ d_all = <<>>
            /\ d_interp = EmptyInterp
            /\ d_pc = "create" =>
                  d_norm = IF d_ext.coords # <<>> THEN FromCoordinates(d_ext.coords)
                           ELSE <<DefaultBuilding(0, DefaultFootprint)>>)

\* two elevation pages, both interpreted, one default building as the result
C26_Witness ==
    /\ d_pc = "create" /\ d_k = 0
    /\ Len(d_ext.images) = 2
    /\ \A p \in 0..1 : PageType(d_ext, p) = "elevation"
    /\ Len(d_calls) = 2
    /\ d_onlyElevations
    /\ d_norm = <<DefaultBuilding(0, DefaultFootprint)>>

\* the interpreter calls this execution made for page p, in order
d_pageCalls(p) ==
    LET made(c) == c.page = p /\ c.fn # "text"
    IN SelectSeq(d_calls, made)

\* the calls page p has received are calls its classification allows
d_callsAllowed(p) ==
    LET calls == d_pageCalls(p)
        type == PageType(d_ext, p)
    IN CASE type \in {"text", "schedule"} -> calls = <<>>
         [] type = "floor_plan" -> Len(calls) <= 1 /\ \A c \in 1..Len(calls) : calls[c].fn = "floor_plan"
         [] type = "elevation" -> Len(calls) <= 1 /\ \A c \in 1..Len(calls) : calls[c].fn = "elevation"
         [] OTHER ->
              /\ Len(calls) <= 2
              /\ Len(calls) >= 1 => calls[1].fn = "floor_plan"
              /\ Len(calls) = 2 =>
                    /\ calls[2].fn = "elevation"
                    /\ calls[1].result \notin {"raised", "buildings", "dimensions"}

\* page p has received every call its classification asks for
d_callsComplete(p) ==
    LET calls == d_pageCalls(p)
        type == PageType(d_ext, p)
    IN CASE type \in {"text", "schedule"} -> TRUE
         [] type \in {"floor_plan", "elevation"} -> Len(calls) = 1
         [] OTHER -> /\ Len(calls) >= 1
                     /\ Len(calls) = 1 => calls[1].result # "elevation"

\* C27, as stated: the interpreter is never invoked for a page classified text
\* or schedule; a floor_plan page gets exactly one interpret_floor_plan call and
\* no elevation call, an elevation page exactly one interpret_elevation call
\* and no floor-plan call, and a page with no classification
\* interpret_floor_plan first and interpret_elevation only if that result has
\* neither buildings nor building_dimensions.
C27_CallsByPageType ==
    d_pc = "normalize" =>
        \A p \in 0..(Len(d_ext.images) - 1) : d_callsAllowed(p) /\ d_callsComplete(p)

\* C27, amended: no page ever receives a call its classification does not
\* allow, and every page the loop has gone past has received exactly the calls
\* stated; a page the loop does not get to (the interpreter could not be
\* constructed, or an earlier page's result made the merge raise) gets none.
C27_CallsByPageTypeReached ==
    \A p \in 0..(Len(d_ext.images) - 1) :
        /\ d_callsAllowed(p)
        /\ p < d_idx => d_callsComplete(p)
        /\ p > d_idx => d_pageCalls(p) = <<>>

\* a schedule page was passed without a call and the floor-plan page got one
C27_Witness ==
    /\ d_pc = "normalize"
    /\ Len(d_ext.images) = 2
    /\ d_idx = 2
    /\ \E p, q \in 0..1 :
          /\ PageType(d_ext, p) = "floor_plan" /\ Len(d_pageCalls(p)) = 1
          /\ PageType(d_ext, q) = "schedule" /\ d_pageCalls(q) = <<>>

----------------------------------------------------------------------------
(* Claims about the refine step of generate_3d_model_ai *)

\* the step in which the refine step of a text-mode job fails
a_refineFails == a_pc = "refine" /\ a_refine' = "failed"

\* the step that ends the final write of a job whose refine step had failed
a_writeAfterFailedRefine ==
    a_pc = "write" /\ a_pc' # "write" /\ a_job.mode = "text" /\ a_refine = "failed"

----------------------------------------------------------------------------
(* Claims about the storage upload *)

\* C30: _upload_to_storage succeeds whenever the storage service is reachable,
\* under every interleaving of concurrent uploads: when two jobs upload while
\* the bucket does not exist yet and bucket creation fails for a bucket that
\* already exists, both jobs still store their object and return its URL.
C30_ConcurrentUploadsSucceed ==
    \A j \in UploadJobs :
        /\ ~u_raised[j]
        /\ u_pc[j] = "done" => (u_todo[j] = 0 /\ u_urls[j] \subseteq u_objects)

=============================================================================
